---- MODULE Spec2Model ----
(***************************************************************************)
(* Workflow execution engine of copil: graph traversal                     *)
(* (ActionExecutorService.execute_for_workflow), placeholder resolution    *)
(* (_resolve_inputs), grant lookup (SigningService), the circuit breaker    *)
(* of BlockchainServiceManager, and the trigger checks of polled           *)
(* workflows (monitor_active_workflows, _check_polling_event).             *)
(*                                                                         *)
(* Strings are sequences of symbols.  A symbol is either one of the        *)
(* punctuation characters of NonWord or a word symbol (a TLA+ string that  *)
(* stands for one or more characters of the regex class \w).               *)
(*                                                                         *)
(* JSON values are tagged records [t, v]; a dict is a function from keys   *)
(* (strings) to JSON values.                                               *)
(***************************************************************************)
EXTENDS Integers, Sequences, FiniteSets, TLC

----------------------------------------------------------------------------
(* JSON values *)

JStr(s) == [t |-> "str", v |-> s]
JInt(i) == [t |-> "int", v |-> i]
JBool(b) == [t |-> "bool", v |-> b]
JNone == [t |-> "none", v |-> 0]
JDict(m) == [t |-> "dict", v |-> m]
EmptyDict == JDict(<<>>)

\* d with d[k] = val added or replaced (Python: d[k] = val)
DictSet(d, k, val) ==
    JDict([x \in (DOMAIN d.v) \cup {k} |-> IF x = k THEN val ELSE d.v[x]])

\* Python: d.get(k)
DictGet(d, k) == IF k \in DOMAIN d.v THEN d.v[k] ELSE JNone

----------------------------------------------------------------------------
(* Expression resolver: ActionExecutorService._resolve_inputs *)

NonWord == {"{", "}", ".", "[", "]", "'", "\"", " ", "-"}

\* the character class [\w.\[\]'\" ] of placeholder_pattern
InPathClass(c) == c \notin NonWord \/ c \in {".", "[", "]", "'", "\"", " "}

\* length of the longest prefix of s made of class characters (greedy +)
RECURSIVE ClassRun(_)
ClassRun(s) ==
    IF s = <<>> \/ ~InPathClass(Head(s)) THEN 0 ELSE 1 + ClassRun(Tail(s))

NoMatch == [matched |-> FALSE, group |-> <<>>]

\* the rest of the pattern after "{{": k class characters, k >= 1, then "}}"
MatchAfterBraces(rest, k) ==
    IF k >= 1 /\ Len(rest) >= k + 2 /\ rest[k + 1] = "}" /\ rest[k + 2] = "}"
    THEN [matched |-> TRUE, group |-> SubSeq(rest, 1, k)]
    ELSE NoMatch

\* placeholder_pattern.match(value): anchored at the start of value only
PlaceholderMatch(value) ==
    IF Len(value) >= 2 /\ value[1] = "{" /\ value[2] = "{"
    THEN MatchAfterBraces(SubSeq(value, 3, Len(value)),
                          ClassRun(SubSeq(value, 3, Len(value))))
    ELSE NoMatch

\* str.strip()
RECURSIVE LStrip(_)
LStrip(s) == IF s # <<>> /\ Head(s) = " " THEN LStrip(Tail(s)) ELSE s

RECURSIVE RStrip(_)
RStrip(s) ==
    IF s # <<>> /\ s[Len(s)] = " " THEN RStrip(SubSeq(s, 1, Len(s) - 1)) ELSE s

Strip(s) == RStrip(LStrip(s))

\* str.replace(c, "")
Remove(s, c) == SelectSeq(s, LAMBDA x : x # c)

\* str.split(sep): the pieces between occurrences of sep, empty ones included
RECURSIVE SplitAcc(_, _, _)
SplitAcc(s, sep, cur) ==
    IF s = <<>> THEN <<cur>>
    ELSE IF Head(s) = sep THEN <<cur>> \o SplitAcc(Tail(s), sep, <<>>)
    ELSE SplitAcc(Tail(s), sep, Append(cur, Head(s)))

Split(s, sep) == SplitAcc(s, sep, <<>>)

RECURSIVE Flatten(_)
Flatten(ss) == IF ss = <<>> THEN <<>> ELSE Head(ss) \o Flatten(Tail(ss))

\* part.split('.') for every part, empty key parts skipped
KeyPartsOf(parts) ==
    Flatten([i \in 1..Len(parts) |->
                SelectSeq(Split(parts[i], "."), LAMBDA kp : kp # <<>>)])

\* the key parts the two nested loops visit, in order
PathKeyParts(path) ==
    KeyPartsOf(Split(Remove(Remove(Remove(path, "'"), "\""), "]"), "["))

\* resolved_value = resolved_value.get(key_part) along the key parts.
\* .get exists on dicts only: on any other value Python raises AttributeError,
\* which the except clause (KeyError, IndexError, TypeError) does not catch.
RECURSIVE WalkPath(_, _)
WalkPath(val, keys) ==
    IF keys = <<>> THEN [exc |-> "none", value |-> val]
    ELSE IF val.t # "dict" THEN [exc |-> "AttributeError", value |-> JNone]
    ELSE WalkPath(DictGet(val, Head(keys)), Tail(keys))

Resolved(val) == [exc |-> "none", value |-> val, placeholder |-> <<>>, path |-> <<>>]

\* the end of the walk: AttributeError on the way, or the ValueError of line
\* 181, whose message holds the raw placeholder (value) and the path
ResolvedWalk(value, path, w) ==
    IF w.exc # "none"
    THEN [exc |-> w.exc, value |-> JNone, placeholder |-> <<>>, path |-> <<>>]
    ELSE IF w.value = JNone
    THEN [exc |-> "ValueError", value |-> JNone, placeholder |-> value.v, path |-> path]
    ELSE Resolved(w.value)

ResolveMatched(value, execution_data, path) ==
    ResolvedWalk(value, path, WalkPath(execution_data, PathKeyParts(path)))

\* one config entry
ResolveValue(value, execution_data) ==
    IF value.t # "str" THEN Resolved(value)
    ELSE IF ~PlaceholderMatch(value.v).matched THEN Resolved(value)
    ELSE ResolveMatched(value, execution_data, Strip(PlaceholderMatch(value.v).group))

\* config is the sequence of the dict's items [k, v] in iteration order
RECURSIVE ResolveFrom(_, _, _), ResolveNext(_, _, _, _)
ResolveFrom(config, execution_data, acc) ==
    IF config = <<>>
    THEN [exc |-> "none", config |-> acc, placeholder |-> <<>>, path |-> <<>>]
    ELSE ResolveNext(config, execution_data, acc,
                     ResolveValue(Head(config).v, execution_data))

ResolveNext(config, execution_data, acc, r) ==
    IF r.exc # "none"
    THEN [exc |-> r.exc, config |-> <<>>, placeholder |-> r.placeholder,
          path |-> r.path]
    ELSE ResolveFrom(Tail(config), execution_data,
                     Append(acc, [k |-> Head(config).k, v |-> r.value]))

_resolve_inputs(config, execution_data) == ResolveFrom(config, execution_data, <<>>)

\* Python: config.get(key)
ConfigGet(config, key) ==
    IF \E i \in 1..Len(config) : config[i].k = key
    THEN config[CHOOSE i \in 1..Len(config) : config[i].k = key].v
    ELSE JNone

----------------------------------------------------------------------------
(* Grant resolver: SigningService.find_valid_grant_for_action *)

\* s contains t as a contiguous substring (SQL: s LIKE '%' || t || '%')
IsSubstring(t, s) ==
    \E i \in 0..(Len(s) - Len(t)) : SubSeq(s, i + 1, i + Len(t)) = t

\* the text of a JSON array of strings: ["x", "y"]
RECURSIVE JoinQuoted(_)
JoinQuoted(targets) ==
    IF targets = <<>> THEN <<>>
    ELSE <<"\"">> \o Head(targets) \o <<"\"">>
         \o (IF Len(targets) > 1 THEN <<",", " ">> ELSE <<>>)
         \o JoinQuoted(Tail(targets))

AsText(targets) == <<"[">> \o JoinQuoted(targets) \o <<"]">>

\* A grant: [id, user_id, expires_at, allowed_targets, has_spend_limits,
\* spend_limits].  permissions["spend_limits"] is spend_limits when
\* has_spend_limits, and absent otherwise.
MAX_SPEND_PER_TX == <<"max_spend_per_tx">>

WithinPerTx(max_per_tx, value) ==
    IF max_per_tx = JNone THEN "true"
    ELSE IF max_per_tx.t # "int" THEN "false"
    ELSE IF value > max_per_tx.v THEN "false"
    ELSE "true"

\* _check_spend_limits refusing a transaction above max_spend_per_day
_check_spend_limits_Daily(grant, value) ==
    IF ~grant.has_spend_limits THEN "true"
    ELSE IF grant.spend_limits.t # "dict" THEN "AttributeError"
    ELSE IF WithinPerTx(DictGet(grant.spend_limits, MAX_SPEND_PER_TX), value) = "false"
    THEN "false"
    ELSE WithinPerTx(DictGet(grant.spend_limits, <<"max_spend_per_day">>), value)

\* "true" | "false" | "AttributeError" (spend_limits without a .get: not
\* among the exceptions the function catches)
_check_spend_limits(grant, value) ==
    IF ~grant.has_spend_limits THEN "true"
    ELSE IF grant.spend_limits.t # "dict" THEN "AttributeError"
    ELSE WithinPerTx(DictGet(grant.spend_limits, MAX_SPEND_PER_TX), value)

\* the rows of the query, in the order the database returns them
GrantCandidates(grantRows, user_id, target_contract, t) ==
    SelectSeq(grantRows, LAMBDA g :
        /\ g.user_id = user_id
        /\ g.expires_at > t
        /\ IsSubstring(target_contract, AsText(g.allowed_targets)))

NoGrant == 0

\* the loop over result.scalars().all(): [exc, grant]
RECURSIVE FirstGrantWithinLimits(_, _), GrantChecked(_, _, _)
FirstGrantWithinLimits(cands, value) ==
    IF cands = <<>> THEN [exc |-> "none", grant |-> NoGrant]
    ELSE GrantChecked(cands, value, _check_spend_limits(Head(cands), value))

\* GrantChecked giving up at the first candidate whose check fails
GrantChecked_StopAtFirst(cands, value, c) ==
    IF c = "AttributeError" THEN [exc |-> "AttributeError", grant |-> NoGrant]
    ELSE IF c = "true" THEN [exc |-> "none", grant |-> Head(cands).id]
    ELSE [exc |-> "none", grant |-> NoGrant]

GrantChecked(cands, value, c) ==
    IF c = "AttributeError" THEN [exc |-> "AttributeError", grant |-> NoGrant]
    ELSE IF c = "true" THEN [exc |-> "none", grant |-> Head(cands).id]
    ELSE FirstGrantWithinLimits(Tail(cands), value)

find_valid_grant_for_action(grantRows, user_id, target_contract, value, t) ==
    FirstGrantWithinLimits(GrantCandidates(grantRows, user_id, target_contract, t),
                           value)

----------------------------------------------------------------------------
(* Provider manager: BlockchainServiceManager._execute_with_breaker *)

CIRCUIT_BREAKER_FAILURE_THRESHOLD == 5
CIRCUIT_BREAKER_RECOVERY_TIMEOUT == 300

\* exclude=[(NotImplementedError,)]: the list has one entry, and that entry is
\* a tuple holding the class, not the class itself
EXCLUDE == <<[kind |-> "tuple", classes |-> {"NotImplementedError"}]>>

\* reads_tuples: whether the installed pybreaker applies an entry of the
\* exclude list that is a tuple of classes.  Releases whose is_system_error
\* accepts only classes and callables (type(entry) is type / callable(entry))
\* skip such an entry; releases that hand each entry to issubclass apply it.
BreakerClosed ==
    [state |-> "closed", fail_counter |-> 0, opened_at |-> 0, reads_tuples |-> FALSE]

\* the class of the exception behind an outcome of the primary adapter
PrimaryExc(primary) ==
    IF primary = "not_implemented" THEN "NotImplementedError" ELSE "PrimaryError"

\* CircuitBreaker.is_system_error for the breaker's exclude list
IsSystemError(exc_class, exclude, reads_tuples) ==
    ~\E i \in DOMAIN exclude :
        /\ exc_class \in exclude[i].classes
        /\ exclude[i].kind = "type" \/ (exclude[i].kind = "tuple" /\ reads_tuples)

\* the breaker after a call it takes for a success
Closed(b) == [b EXCEPT !.state = "closed", !.fail_counter = 0, !.opened_at = 0]

\* BreakerCall refusing every call once open, whatever the time
BreakerCall_NoProbe(b, t, primary) ==
    IF b.state = "open"
    THEN [breaker |-> b, primary_invoked |-> FALSE,
          result |-> "CircuitBreakerError"]
    ELSE IF primary = "ok"
    THEN [breaker |-> Closed(b), primary_invoked |-> TRUE, result |-> "ok"]
    ELSE IF ~IsSystemError(PrimaryExc(primary), EXCLUDE, b.reads_tuples)
    THEN [breaker |-> Closed(b), primary_invoked |-> TRUE, result |-> primary]
    ELSE IF b.fail_counter + 1 >= CIRCUIT_BREAKER_FAILURE_THRESHOLD
    THEN [breaker |-> [b EXCEPT !.state = "open", !.fail_counter = @ + 1,
                                !.opened_at = t],
          primary_invoked |-> TRUE, result |-> "CircuitBreakerError"]
    ELSE [breaker |-> [b EXCEPT !.fail_counter = @ + 1],
          primary_invoked |-> TRUE, result |-> primary]

\* BreakerCall opening only above fail_max
BreakerCall_Late(b, t, primary) ==
    IF b.state = "open" /\ t < b.opened_at + CIRCUIT_BREAKER_RECOVERY_TIMEOUT
    THEN [breaker |-> b, primary_invoked |-> FALSE,
          result |-> "CircuitBreakerError"]
    ELSE IF primary = "ok"
    THEN [breaker |-> Closed(b), primary_invoked |-> TRUE, result |-> "ok"]
    ELSE IF ~IsSystemError(PrimaryExc(primary), EXCLUDE, b.reads_tuples)
    THEN [breaker |-> Closed(b), primary_invoked |-> TRUE, result |-> primary]
    ELSE IF b.state = "open"
            \/ b.fail_counter + 1 > CIRCUIT_BREAKER_FAILURE_THRESHOLD
    THEN [breaker |-> [b EXCEPT !.state = "open", !.fail_counter = @ + 1,
                                !.opened_at = t],
          primary_invoked |-> TRUE, result |-> "CircuitBreakerError"]
    ELSE [breaker |-> [b EXCEPT !.fail_counter = @ + 1],
          primary_invoked |-> TRUE, result |-> primary]

\* self.breaker.call_async(func, ...): what the breaker does with one call.
\* primary is the outcome the primary adapter would give: "ok", "error" (an
\* exception such as NetworkException) or "not_implemented"
\* (NotImplementedError).
\* result "ok": func returned; "error" / "not_implemented": func's exception
\* re-raised; "CircuitBreakerError": the breaker refused the call or tripped
\* on it.  An exception that is no system error is handled as a success and
\* re-raised.
BreakerCall(b, t, primary) ==
    IF b.state = "open" /\ t < b.opened_at + CIRCUIT_BREAKER_RECOVERY_TIMEOUT
    THEN [breaker |-> b, primary_invoked |-> FALSE,
          result |-> "CircuitBreakerError"]
    ELSE IF primary = "ok"
    THEN [breaker |-> Closed(b), primary_invoked |-> TRUE, result |-> "ok"]
    ELSE IF ~IsSystemError(PrimaryExc(primary), EXCLUDE, b.reads_tuples)
    THEN [breaker |-> Closed(b), primary_invoked |-> TRUE, result |-> primary]
    ELSE IF b.state = "open"
            \/ b.fail_counter + 1 >= CIRCUIT_BREAKER_FAILURE_THRESHOLD
    THEN [breaker |-> [b EXCEPT !.state = "open", !.fail_counter = @ + 1,
                                !.opened_at = t],
          primary_invoked |-> TRUE, result |-> "CircuitBreakerError"]
    ELSE [breaker |-> [b EXCEPT !.fail_counter = @ + 1],
          primary_invoked |-> TRUE, result |-> primary]

NoErrors == [primary |-> "none", fallback |-> "none"]

\* the except clauses of _execute_with_breaker, c being the breaker's answer.
\* carried: the errors the raised exception holds.  In the composite
\* exception the part named "Primary" is the caught exception e, which is
\* the breaker's CircuitBreakerError, and the exception is raised "from e".
RouteCall(c, fallback) ==
    IF c.result = "ok"
    THEN [breaker |-> c.breaker, primary_invoked |-> c.primary_invoked,
          fallback_invoked |-> FALSE, result |-> "primary_ok", carried |-> NoErrors]
    ELSE IF c.result = "CircuitBreakerError"
    THEN [breaker |-> c.breaker, primary_invoked |-> c.primary_invoked,
          fallback_invoked |-> TRUE,
          result |-> IF fallback = "ok" THEN "fallback_ok"
                     ELSE "TOTAL_SERVICE_FAILURE",
          carried |-> IF fallback = "ok" THEN NoErrors
                      ELSE [primary |-> "CircuitBreakerError",
                            fallback |-> "FallbackError"]]
    ELSE [breaker |-> c.breaker, primary_invoked |-> c.primary_invoked,
          fallback_invoked |-> FALSE,
          result |-> IF c.result = "not_implemented" THEN "primary_not_implemented"
                     ELSE "primary_error",
          carried |-> [primary |-> PrimaryExc(c.result), fallback |-> "none"]]

\* result: "primary_ok" | "fallback_ok" | "primary_error" and
\* "primary_not_implemented" (re-raised by the last except clause) |
\* "TOTAL_SERVICE_FAILURE"
_execute_with_breaker(b, t, primary, fallback) ==
    RouteCall(BreakerCall(b, t, primary), fallback)

ManagerCallOk(result) == result \in {"primary_ok", "fallback_ok"}

AdapterOutcomes == {"ok", "error"}

\* the primary adapter (OneBalanceAdapter) also raises NotImplementedError
PrimaryOutcomes == AdapterOutcomes \cup {"not_implemented"}

\* what the fallback adapter (DirectWeb3Adapter) can answer for an operation:
\* quotes and executions of bridge, staking and lending always raise
FallbackOutcomes(op) ==
    IF op = "get_onchain_data" THEN {"ok", "error"} ELSE {"error"}

----------------------------------------------------------------------------
(* Execution record: models/workflow_execution.py, and its database row *)

NoNode == <<>>

\* an exception: its class, what it is about, and for the resolver's
\* ValueError the raw placeholder and the path its message holds
Exc(cls, msg) == [exc |-> cls, msg |-> msg, placeholder |-> <<>>, path |-> <<>>]
NoExc == Exc("none", "")

NoResult == [kind |-> "none", error |-> NoExc, failed_at_node |-> NoNode]

Columns == {"status", "current_node_id", "execution_data", "result",
            "transaction_hash"}

\* a transient WorkflowExecution(workflow_id=...) before start_execution
NewExecution ==
    [status |-> "STARTED", current_node_id |-> NoNode, execution_data |-> EmptyDict,
     result |-> NoResult, transaction_hash |-> <<>>, dirty |-> {}]

NoRow ==
    [exists |-> FALSE, status |-> "STARTED", current_node_id |-> NoNode,
     execution_data |-> EmptyDict, result |-> NoResult, transaction_hash |-> <<>>]

start_execution(m, start_node_id) ==
    [m EXCEPT !.status = "IN_PROGRESS", !.result = NoResult,
              !.current_node_id = start_node_id, !.execution_data = EmptyDict,
              !.dirty = @ \cup {"status", "result", "current_node_id",
                                "execution_data"}]

advance_to_node(m, next_node_id) ==
    [m EXCEPT !.status = "IN_PROGRESS", !.current_node_id = next_node_id,
              !.dirty = @ \cup {"status", "current_node_id"}]

fail_execution(m, error) ==
    [m EXCEPT !.status = "FAILED",
              !.result = [kind |-> "error", error |-> error,
                          failed_at_node |-> m.current_node_id],
              !.dirty = @ \cup {"status", "result"}]

set_transaction_hash(m, h) ==
    [m EXCEPT !.transaction_hash = h, !.dirty = @ \cup {"transaction_hash"}]

NODES == <<"nodes">>
OUTPUT == <<"output">>

\* execution.execution_data.setdefault('nodes', {})[node_id] = {"output": out}
\* The dict held by the JSON column is changed in place: the attribute is not
\* assigned, so the column (a plain JSON type) is not marked as modified.
RecordNodeOutput(m, node_id, out) ==
    LET data == m.execution_data
        nodes == IF NODES \in DOMAIN data.v THEN data.v[NODES] ELSE EmptyDict
    IN [m EXCEPT !.execution_data =
            DictSet(data, NODES, DictSet(nodes, node_id, JDict([x \in {OUTPUT} |-> out])))]

\* session.commit(): INSERT of a new object, else UPDATE of the modified columns
Commit(m, row) ==
    IF ~row.exists
    THEN [exists |-> TRUE, status |-> m.status, current_node_id |-> m.current_node_id,
          execution_data |-> m.execution_data, result |-> m.result,
          transaction_hash |-> m.transaction_hash]
    ELSE [exists |-> TRUE,
          status |-> IF "status" \in m.dirty THEN m.status ELSE row.status,
          current_node_id |-> IF "current_node_id" \in m.dirty
                              THEN m.current_node_id ELSE row.current_node_id,
          execution_data |-> IF "execution_data" \in m.dirty
                             THEN m.execution_data ELSE row.execution_data,
          result |-> IF "result" \in m.dirty THEN m.result ELSE row.result,
          transaction_hash |-> IF "transaction_hash" \in m.dirty
                               THEN m.transaction_hash ELSE row.transaction_hash]

\* session.refresh(execution): every column is loaded from the row
Refresh(row) ==
    [status |-> row.status, current_node_id |-> row.current_node_id,
     execution_data |-> row.execution_data, result |-> row.result,
     transaction_hash |-> row.transaction_hash, dirty |-> {}]

Committed(m) == [m EXCEPT !.dirty = {}]

----------------------------------------------------------------------------
(* Workflow graph: models/workflow.py and the indices of execute_for_workflow *)

NodeIdsOf(nodes) == {nodes[i].id : i \in 1..Len(nodes)}

\* start_node_id answering the first node whatever the edges
StartNodeId_FirstNode(nodes, edges) ==
    IF nodes = <<>> THEN NoNode ELSE nodes[1].id

\* Workflow.start_node_id
StartNodeId(nodes, edges) ==
    IF nodes = <<>> THEN NoNode
    ELSE LET target_ids == {edges[i].target : i \in 1..Len(edges)}
             free == {i \in 1..Len(nodes) : nodes[i].id \notin target_ids}
         IN IF free # {}
            THEN nodes[CHOOSE i \in free : \A j \in free : i <= j].id
            ELSE nodes[1].id

\* nodes_map.get(node_id): the last node with that id; <<>> when none has it
NodesMapGet(nodes, node_id) ==
    LET idx == {i \in 1..Len(nodes) : nodes[i].id = node_id}
    IN IF idx = {} THEN <<>>
       ELSE <<nodes[CHOOSE i \in idx : \A j \in idx : j <= i]>>

\* edges_map.get(node_id, []): the edges leaving node_id, in list order
OutgoingEdges(edges, node_id) == SelectSeq(edges, LAMBDA e : e.source = node_id)

\* NextByLabel looking at the edges of every node
NextByLabel_AnySource(edges, node_id, label_to_find, missingIsDefault) ==
    LET matching == SelectSeq(edges, LAMBDA e :
                       \/ e.label = label_to_find
                       \/ (missingIsDefault /\ e.label = ""))
    IN IF matching = <<>> THEN NoNode ELSE Head(matching).target

\* next((edge for edge in outgoing_edges if <label matches>), None).target.
\* An edge without a label has label "" here; for a transactional node
\* edge.get('label', 'default') reads it as "default".
NextByLabel(edges, node_id, label_to_find, missingIsDefault) ==
    LET matching == SelectSeq(OutgoingEdges(edges, node_id), LAMBDA e :
                       \/ e.label = label_to_find
                       \/ (missingIsDefault /\ e.label = ""))
    IN IF matching = <<>> THEN NoNode ELSE Head(matching).target

----------------------------------------------------------------------------
(* Node handlers of ActionExecutorService *)

JNumStr(i) == [t |-> "numstr", v |-> i]  \* the str whose text is the decimal of i

\* Python truth value
Truthy(val) ==
    CASE val.t = "none" -> FALSE
      [] val.t = "str" -> val.v # <<>>
      [] val.t = "int" -> val.v # 0
      [] val.t = "bool" -> val.v
      [] val.t = "dict" -> DOMAIN val.v # {}
      [] OTHER -> TRUE

\* str(x): numeric text for an int, x itself for a str
StrOf(val) == IF val.t = "int" THEN JNumStr(val.v) ELSE val

K(word) == <<word>>

Operators == {">", "<", ">=", "<=", "==", "!="}

ApplyOperator(o, x, y) ==
    CASE o = ">" -> x > y
      [] o = "<" -> x < y
      [] o = ">=" -> x >= y
      [] o = "<=" -> x <= y
      [] o = "==" -> x = y
      [] o = "!=" -> x # y

\* an environment choice for one node step: the value the data source gives,
\* the outcome of a comparison of non-numeric texts, what the adapters answer
\* to the first and second manager call of the step, and the vault
\* (a condition makes one manager call and uses no vault; a transactional node
\* compares nothing and its fallback adapter always raises), and whether the
\* quote the provider issued has expired by the time the handler has found
\* a grant and a signer and calls the execute operation
EnvChoices(type) ==
    IF type = "condition"
    THEN [actual : {5, 15}, strcmp : BOOLEAN, p1 : AdapterOutcomes,
          f1 : AdapterOutcomes, p2 : {"ok"}, vault : {"ok"}, quote_expired : {FALSE}]
    ELSE [actual : {5}, strcmp : {FALSE}, p1 : AdapterOutcomes, f1 : {"error"},
          p2 : AdapterOutcomes, vault : {"ok", "error"}, quote_expired : BOOLEAN]

ManagerExc(result) ==
    IF result = "TOTAL_SERVICE_FAILURE"
    THEN Exc("BlockchainServiceException", "TOTAL_SERVICE_FAILURE")
    ELSE IF result = "primary_not_implemented"
    THEN Exc("NotImplementedError", "primary adapter error")
    ELSE Exc("PrimaryError", "primary adapter error")

\* what a handler gives back: the exception it raised (or NoExc), the breaker
\* after it, the node's output, the next node and the calls it made
Raised(e, br, evs) ==
    [exc |-> e, breaker |-> br, output |-> EmptyDict, next |-> NoNode,
     events |-> evs, tx_hash |-> <<>>]

\* operator_func(float(actual_value), float(target_value)), or the comparison
\* of the two texts when target_value is no number
ConditionMet(o, target_value, env) ==
    IF target_value.t \in {"int", "numstr"}
    THEN ApplyOperator(o, env.actual, target_value.v)
    ELSE IF target_value.t = "bool"
    THEN ApplyOperator(o, env.actual, IF target_value.v THEN 1 ELSE 0)
    ELSE env.strcmp

\* ConditionOutput following the label of the other outcome
ConditionOutput_Swapped(node, edges, br, condition_met) ==
    [exc |-> NoExc, breaker |-> br,
     output |-> JDict([x \in {K("result")} |-> JBool(condition_met)]),
     next |-> NextByLabel(edges, node.id,
                          IF condition_met THEN "on_false" ELSE "on_true", FALSE),
     events |-> <<>>, tx_hash |-> <<>>]

\* lines 80-90: the output and the edge labelled with the result
ConditionOutput(node, edges, br, condition_met) ==
    [exc |-> NoExc, breaker |-> br,
     output |-> JDict([x \in {K("result")} |-> JBool(condition_met)]),
     next |-> NextByLabel(edges, node.id,
                          IF condition_met THEN "on_true" ELSE "on_false", FALSE),
     events |-> <<>>, tx_hash |-> <<>>]

\* _handle_condition after get_onchain_data has answered (call)
ConditionWithData(node, config, edges, env, call, operator_str) ==
    IF ~ManagerCallOk(call.result) THEN Raised(ManagerExc(call.result), call.breaker, <<>>)
    ELSE IF operator_str.t = "dict"
    THEN Raised(Exc("TypeError", "unhashable operator"), call.breaker, <<>>)
    ELSE IF ~(operator_str.t = "str" /\ Len(operator_str.v) = 1
              /\ operator_str.v[1] \in Operators)
    THEN Raised(Exc("ValueError", "unsupported_operator"), call.breaker, <<>>)
    ELSE ConditionOutput(node, edges, call.breaker,
                         ConditionMet(operator_str.v[1],
                                      ConfigGet(config, K("value")), env))

\* _handle_condition and the edge choice of lines 82-90
HandleCondition(node, config, edges, b, t, env) ==
    IF ~(Truthy(ConfigGet(config, K("source")))
         /\ Truthy(ConfigGet(config, K("operator")))
         /\ Truthy(ConfigGet(config, K("chain"))))
       \/ ConfigGet(config, K("value")) = JNone
    THEN Raised(Exc("ValueError", "missing_fields"), b, <<>>)
    ELSE ConditionWithData(node, config, edges, env,
            _execute_with_breaker(b, t, env.p1,
                IF env.f1 \in FallbackOutcomes("get_onchain_data")
                THEN env.f1 ELSE "error"),
            ConfigGet(config, K("operator")))

TransactionalTypes == {"swap", "bridge", "stake", "supply_asset"}

\* the config fields each _handle_*_quote requires
RequiredFields(action_type) ==
    CASE action_type = "swap" -> {"from_asset", "to_asset", "from_chain", "to_chain"}
      [] action_type = "bridge" -> {"asset", "from_chain", "to_chain"}
      [] action_type = "stake" -> {"asset", "from_chain", "staking_pool"}
      [] action_type = "supply_asset" -> {"asset", "from_chain", "lending_pool"}

TargetSource(action_type, config) ==
    CASE action_type = "bridge" -> ConfigGet(config, K("asset"))
      [] action_type = "stake" -> ConfigGet(config, K("staking_pool"))
      [] action_type = "supply_asset" -> ConfigGet(config, K("lending_pool"))
      [] OTHER -> ConfigGet(config, K("from_asset"))

\* target_contract of _get_quote_for_action (the quote echoes the request)
TargetContract(action_type, config) ==
    IF TargetSource(action_type, config).t = "str"
    THEN TargetSource(action_type, config).v ELSE <<"?">>

ExecuteOp(action_type) ==
    CASE action_type = "swap" -> "execute_swap"
      [] action_type = "bridge" -> "execute_bridge"
      [] action_type = "stake" -> "execute_staking"
      [] action_type = "supply_asset" -> "execute_supply"

\* a call the handler made; expired: for a provider execute operation,
\* whether the quote's expires_at had passed when the call was made
Event(op, node_id, target, value, grant) ==
    [op |-> op, node |-> node_id, target |-> target, value |-> value, grant |-> grant,
     expired |-> FALSE]

TX_HASH == <<"0xhash">>

\* _sign_and_execute passes quote.quote_id to the execute operation
\* (lines 309-325) and reads no other field of the quote but its amount
SignEvents(node, target, value, grant, quote_expired) ==
    <<Event("grant_lookup", node.id, target, value, grant),
      Event("sign", node.id, target, value, grant),
      [Event(ExecuteOp(node.type), node.id, target, value, grant)
          EXCEPT !.expired = quote_expired]>>

\* ActionOutput following the edge labelled on_true
ActionOutput_FollowsOnTrue(node, edges, amount, br, evs) ==
    [exc |-> NoExc, breaker |-> br,
     output |-> JDict([x \in {K("tx_hash"), K("quote")} |->
                 IF x = K("tx_hash") THEN JStr(TX_HASH)
                 ELSE JDict([y \in {K("amount")} |-> amount])]),
     next |-> NextByLabel(edges, node.id, "on_true", FALSE),
     events |-> evs, tx_hash |-> TX_HASH]

\* lines 108-116: the output and the default edge
ActionOutput(node, edges, amount, br, evs) ==
    [exc |-> NoExc, breaker |-> br,
     output |-> JDict([x \in {K("tx_hash"), K("quote")} |->
                 IF x = K("tx_hash") THEN JStr(TX_HASH)
                 ELSE JDict([y \in {K("amount")} |-> amount])]),
     next |-> NextByLabel(edges, node.id, "default", TRUE),
     events |-> evs, tx_hash |-> TX_HASH]

\* lines 309-330: the provider's execute operation has answered (call)
Executed(node, edges, amount, call, evs) ==
    IF ~ManagerCallOk(call.result) THEN Raised(ManagerExc(call.result), call.breaker, evs)
    ELSE ActionOutput(node, edges, amount, call.breaker, evs)

\* Signed without the check of the lookup's answer
Signed_NoGrantCheck(node, edges, target, amount, b, t, env, found) ==
    IF found.exc # "none"
    THEN Raised(Exc(found.exc, "spend_limits"), b,
                <<Event("grant_lookup", node.id, target, amount.v, NoGrant)>>)
    ELSE IF env.vault # "ok"
    THEN Raised(Exc("SigningException", "decrypt"), b,
                <<Event("grant_lookup", node.id, target, amount.v, found.grant)>>)
    ELSE Executed(node, edges, amount, _execute_with_breaker(b, t, env.p2, "error"),
                  SignEvents(node, target, amount.v, found.grant, env.quote_expired))

\* lines 300-324: found is the answer of find_valid_grant_for_action
Signed(node, edges, target, amount, b, t, env, found) ==
    IF found.exc # "none"
    THEN Raised(Exc(found.exc, "spend_limits"), b,
                <<Event("grant_lookup", node.id, target, amount.v, NoGrant)>>)
    ELSE IF found.grant = NoGrant
    THEN Raised(Exc("SigningException", "no valid grant"), b,
                <<Event("grant_lookup", node.id, target, amount.v, NoGrant)>>)
    ELSE IF env.vault # "ok"
    THEN Raised(Exc("SigningException", "decrypt"), b,
                <<Event("grant_lookup", node.id, target, amount.v, found.grant)>>)
    ELSE Executed(node, edges, amount, _execute_with_breaker(b, t, env.p2, "error"),
                  SignEvents(node, target, amount.v, found.grant, env.quote_expired))

\* _sign_and_execute: the grant lookup for int(amount), the signature and the
\* provider's execute operation
_sign_and_execute(node, edges, user_id, target, amount, grantRows, b, t, env) ==
    IF amount.t # "numstr" THEN Raised(Exc("ValueError", "invalid_int"), b, <<>>)
    ELSE Signed(node, edges, target, amount, b, t, env,
                find_valid_grant_for_action(grantRows, user_id, target, amount.v, t))

\* lines 94-103 once the quote call has answered
Quoted(node, config, edges, user_id, grantRows, t, env, amount, quote) ==
    IF ~ManagerCallOk(quote.result)
    THEN Raised(ManagerExc(quote.result), quote.breaker, <<>>)
    ELSE _sign_and_execute(node, edges, user_id, TargetContract(node.type, config),
                           amount, grantRows, quote.breaker, t, env)

\* _handle_*_quote; amount is str(config.get('amount'))
ActionWithAmount(node, config, edges, user_id, grantRows, b, t, env, amount) ==
    IF \/ \E f \in RequiredFields(node.type) : ~Truthy(ConfigGet(config, K(f)))
       \/ amount = JStr(<<>>)
    THEN Raised(Exc("ValueError", "missing_fields"), b, <<>>)
    ELSE IF node.type = "swap"
    \* blockchain_manager.get_swap_quote(from_asset, to_asset, amount,
    \* user_address) is called with from_chain=, to_chain=, sca_address=
    THEN Raised(Exc("TypeError", "get_swap_quote arguments"), b, <<>>)
    ELSE Quoted(node, config, edges, user_id, grantRows, t, env, amount,
                _execute_with_breaker(b, t, env.p1, "error"))

\* HandleAction passing over a node of a type it does not know
HandleAction_SkipsUnknown(node, config, edges, user_id, grantRows, b, t, env) ==
    IF node.type \notin TransactionalTypes
    THEN ActionOutput(node, edges, JNone, b, <<>>)
    ELSE ActionWithAmount(node, config, edges, user_id, grantRows, b, t, env,
                          StrOf(ConfigGet(config, K("amount"))))

\* a transactional node: lines 92-116 and _get_quote_for_action
HandleAction(node, config, edges, user_id, grantRows, b, t, env) ==
    IF node.type \notin TransactionalTypes
    THEN Raised(Exc("ValueError", "unsupported_action"), b, <<>>)
    ELSE ActionWithAmount(node, config, edges, user_id, grantRows, b, t, env,
                          StrOf(ConfigGet(config, K("amount"))))

----------------------------------------------------------------------------
(* Polling triggers: the source checkers *)

\* A polled workflow row: [current_state, trigger_type, trigger_config,
\* state, upkeep_id].  state is the poller state the checkers read as
\* workflow.state and _check_polling_event writes; JNone is None.

\* Python: x or {}
OrEmpty(x) == IF x.t = "none" \/ x.v = <<>> THEN EmptyDict ELSE x

\* Python: d.get(k, default)
GetOr(d, k, default) == IF k \in DOMAIN d.v THEN d.v[k] ELSE default

\* Python: d.get(k) == text, for a value that may be missing
IsText(val, text) == val.t = "str" /\ val.v = text

\* what a checker returns: (fired, state)
Checked(fired, state) == [fired |-> fired, state |-> state]

MaxOf(S) == CHOOSE x \in S : \A y \in S : y <= x

\* RssCheckerService._get_entry_timestamp over feed.entries: the date of a
\* dated entry, datetime.now() (t) for an entry that carries no date
EntryTimestamps(feed, t) == feed.dated \cup (IF feed.undated THEN {t} ELSE {})

\* RssCheckerService.check at time t; feed is what feedparser.parse gives:
\* kind "bozo" | "error" | "parsed", the timestamps of its dated entries and
\* whether it has an entry without a date
RssCheck(w, feed, t) ==
    IF DictGet(GetOr(w.trigger_config, K("params"), EmptyDict), K("feed_url")).t = "none"
    THEN Checked(FALSE, OrEmpty(w.state))
    ELSE IF /\ feed.kind = "parsed"
            /\ EntryTimestamps(feed, t) # {}
            /\ MaxOf(EntryTimestamps(feed, t)) >
                   GetOr(OrEmpty(w.state), K("last_entry_timestamp"), JInt(0)).v
    THEN Checked(TRUE, JDict([k \in {K("last_entry_timestamp")} |->
                                 JInt(MaxOf(EntryTimestamps(feed, t)))]))
    ELSE Checked(FALSE, OrEmpty(w.state))

\* the txlist Etherscan answers for startblock = last_checked_block + 1:
\* the blocks of the address's transactions from startblock on
TxList(state, blocks) ==
    {b \in blocks : b >= GetOr(state, K("last_checked_block"), JInt(0)).v + 1}

\* EvmCheckerService._check_wallet_transactions; resp is Etherscan: kind
\* "ok" | "error" and the blocks of all transactions of the address.  An
\* empty txlist has status "0", a non-empty one status "1".
_check_wallet_transactions(w, params, resp) ==
    IF DictGet(params, K("address")).t = "none"
    THEN Checked(FALSE, OrEmpty(w.state))
    ELSE IF resp.kind = "ok" /\ TxList(OrEmpty(w.state), resp.blocks) # {}
    THEN Checked(TRUE, JDict([k \in {K("last_checked_block")} |->
             JInt(MaxOf(TxList(OrEmpty(w.state), resp.blocks)))]))
    ELSE Checked(FALSE, OrEmpty(w.state))

\* EvmCheckerService.check
EvmCheck(w, api_key, resp) ==
    IF ~api_key THEN Checked(FALSE, w.state)
    ELSE IF IsText(DictGet(GetOr(w.trigger_config, K("params"), EmptyDict), K("type")),
                   <<"wallet_transaction">>)
    THEN _check_wallet_transactions(w, GetOr(w.trigger_config, K("params"), EmptyDict), resp)
    ELSE Checked(FALSE, w.state)

\* TwitterCheckerService.check and _check_user_tweets; tweets is the
\* answer of get_users_tweets since last_tweet_id
TwitterCheck(w, tweets) ==
    IF ~IsText(DictGet(GetOr(w.trigger_config, K("params"), EmptyDict), K("type")),
               <<"user_tweets">>)
    THEN Checked(FALSE, w.state)
    ELSE IF DictGet(GetOr(w.trigger_config, K("params"), EmptyDict), K("username")).t = "none"
    THEN Checked(FALSE, OrEmpty(w.state))
    ELSE IF tweets.kind = "tweets"
    THEN Checked(TRUE, JDict([k \in {K("last_tweet_id")} |-> JNumStr(tweets.id)]))
    ELSE Checked(FALSE, OrEmpty(w.state))

Digits == {"0", "1", "2", "3", "4", "5", "6", "7", "8", "9"}

\* int(workflow.upkeep_id) does not raise ValueError
IsDecimal(text) == text # <<>> /\ \A i \in DOMAIN text : text[i] \in Digits

\* Python truth of workflow.upkeep_id
HasUpkeep(w) == w.upkeep_id.t # "none" /\ w.upkeep_id.v # <<>>

\* trigger_config.get("_checker_state", {})
CheckerState(trigger_config) == GetOr(trigger_config, K("_checker_state"), EmptyDict)

\* from_block = max(last_checked_block + 1, current_block - 1000)
FromBlock(checker_state, current_block) ==
    IF GetOr(checker_state, K("chainlink_last_block"), JInt(0)).v + 1 > current_block - 1000
    THEN GetOr(checker_state, K("chainlink_last_block"), JInt(0)).v + 1
    ELSE current_block - 1000

\* new_checker_state["last_upkeep_performed"] = {...}
UpkeepPerformed(event_block) ==
    JDict([k \in {K("block_number"), K("transaction_hash"), K("trigger_data"),
                  K("execution_data")} |->
              IF k = K("block_number") THEN JInt(event_block) ELSE JStr(<<"0x", "hex">>)])

\* event_filter.get_all_entries(): the blocks of the UpkeepPerformed events
\* of the upkeep between fromBlock and toBlock = current_block
UpkeepEvents(trigger_config, chain) ==
    {b \in chain.events :
        /\ FromBlock(CheckerState(trigger_config), chain.current_block) <= b
        /\ b <= chain.current_block}

\* the copies ChainlinkCheckerService.check returns after a query (lines
\* 107-133): the cursor moves to current_block, fired or not; events are the
\* blocks of the events found
ChainlinkAdvance(trigger_config, current_block, events) ==
    DictSet(trigger_config, K("_checker_state"),
        IF events # {}
        THEN DictSet(DictSet(CheckerState(trigger_config), K("chainlink_last_block"),
                             JInt(current_block)),
                     K("last_upkeep_performed"), UpkeepPerformed(MaxOf(events)))
        ELSE DictSet(CheckerState(trigger_config), K("chainlink_last_block"),
                     JInt(current_block)))

\* ChainlinkCheckerService.check; web3 says whether the connection was
\* initialised, chain is the node: kind "ok" | "error", the current block and
\* the blocks of the upkeep's UpkeepPerformed events
ChainlinkCheck(w, web3, chain) ==
    IF ~web3 \/ ~HasUpkeep(w) THEN Checked(FALSE, OrEmpty(w.trigger_config))
    ELSE IF ~IsDecimal(w.upkeep_id.v) THEN Checked(FALSE, OrEmpty(w.state))
    ELSE IF chain.kind = "error" THEN Checked(FALSE, OrEmpty(w.trigger_config))
    ELSE Checked(UpkeepEvents(OrEmpty(w.trigger_config), chain) # {},
                 ChainlinkAdvance(OrEmpty(w.trigger_config), chain.current_block,
                                  UpkeepEvents(OrEmpty(w.trigger_config), chain)))

\* the checker monitor_active_workflows picks (lines 161-171)
MonitorChecker(w) ==
    IF /\ IsText(DictGet(OrEmpty(w.trigger_config), K("type")), <<"price_condition">>)
       /\ HasUpkeep(w)
    THEN "chainlink"
    ELSE IF \/ IsText(DictGet(OrEmpty(w.trigger_config), K("type")), <<"wallet_transaction">>)
            \/ IsText(DictGet(OrEmpty(w.trigger_config), K("type")), <<"smart_contract_event">>)
    THEN "evm"
    ELSE IF IsText(DictGet(OrEmpty(w.trigger_config), K("type")), <<"rss_feed">>)
    THEN "rss"
    ELSE "none"

\* checker.check(workflow) of the picked checker
MonitorCheck(w, env, t) ==
    IF MonitorChecker(w) = "chainlink" THEN ChainlinkCheck(w, env.web3, env.chain)
    ELSE IF MonitorChecker(w) = "evm" THEN EvmCheck(w, env.api_key, env.evm)
    ELSE RssCheck(w, env.feed, t)

\* db.commit(): trigger_config is nullable=False, so a row whose
\* trigger_config is None fails the commit and the session's changes are
\* lost; stored is the row before the cycle
CommitWorkflow(stored, w) == IF w.trigger_config.t = "none" THEN stored ELSE w

\* the body of monitor_active_workflows for one active workflow, up to the
\* commit: the returned config replaces trigger_config when it differs.  A
\* fired check then calls action_executor.execute_workflow_action, which
\* ActionExecutorService does not have; the AttributeError is logged by the
\* handler of line 201 and the cycle goes on to the commit.
monitor_active_workflows(w, env, t) ==
    IF MonitorChecker(w) = "none" THEN w
    ELSE CommitWorkflow(w, IF MonitorCheck(w, env, t).state # w.trigger_config
                   THEN [w EXCEPT !.trigger_config = MonitorCheck(w, env, t).state]
                   ELSE w)

\* the checker _check_polling_event picks from its checker_map
PollingChecker(w, twitter) ==
    IF IsText(DictGet(w.trigger_config, K("source")), <<"rss">>) THEN "rss"
    ELSE IF IsText(DictGet(w.trigger_config, K("source")), <<"evm">>) THEN "evm"
    ELSE IF IsText(DictGet(w.trigger_config, K("source")), <<"twitter">>) /\ twitter
    THEN "twitter"
    ELSE "none"

\* is_triggered, new_state = await checker_func(workflow)
PollingCheck(w, env, t) ==
    IF PollingChecker(w, env.twitter) = "rss" THEN RssCheck(w, env.feed, t)
    ELSE IF PollingChecker(w, env.twitter) = "evm" THEN EvmCheck(w, env.api_key, env.evm)
    ELSE TwitterCheck(w, env.tweets)

\* TriggerCheckerService._check_polling_event: (is_triggered, workflow)
_check_polling_event(w, env, t) ==
    IF PollingChecker(w, env.twitter) = "none" THEN [fired |-> FALSE, row |-> w]
    ELSE IF PollingCheck(w, env, t).fired
    THEN [fired |-> TRUE, row |-> [w EXCEPT !.state = PollingCheck(w, env, t).state]]
    ELSE [fired |-> FALSE, row |-> w]

\* Workflow.is_running
is_running(w) == w.current_state \in {"triggered", "executing", "waiting_signature"}

\* can_be_triggered without the test of is_running
can_be_triggered_IgnoresRunning(w) ==
    /\ w.is_active
    /\ w.current_state \notin {"failed", "cancelled"}

\* Workflow.can_be_triggered
can_be_triggered(w) ==
    /\ w.is_active
    /\ ~is_running(w)
    /\ w.current_state \notin {"failed", "cancelled"}

\* TriggerCheckerService._check_price_trigger; market is what get_price
\* answers: a price, or an exception the checker logs
_check_price_trigger(w, market) ==
    IF \/ ~Truthy(DictGet(w.trigger_config, K("asset")))
       \/ ~Truthy(DictGet(w.trigger_config, K("condition")))
       \/ ~Truthy(DictGet(w.trigger_config, K("value")))
    THEN FALSE
    ELSE IF market.kind = "error" THEN FALSE
    ELSE \/ /\ IsText(DictGet(w.trigger_config, K("condition")), <<"above">>)
            /\ market.price > DictGet(w.trigger_config, K("value")).v
         \/ /\ IsText(DictGet(w.trigger_config, K("condition")), <<"below">>)
            /\ market.price < DictGet(w.trigger_config, K("value")).v

\* TriggerCheckerService._check_time_trigger
_check_time_trigger(w, t) == w.next_check_at.t # "none" /\ t >= w.next_check_at.v

\* TriggerCheckerService.check_workflow: (is_triggered, workflow)
check_workflow(w, env, t) ==
    IF ~can_be_triggered(w) THEN [fired |-> FALSE, row |-> w]
    ELSE IF w.trigger_type = "price_trigger"
    THEN [fired |-> _check_price_trigger(w, env.market), row |-> w]
    ELSE IF w.trigger_type = "time_trigger"
    THEN [fired |-> _check_time_trigger(w, t), row |-> w]
    ELSE IF w.trigger_type = "polling_event" THEN _check_polling_event(w, env, t)
    ELSE [fired |-> FALSE, row |-> w]

\* the statement of _check_pending_workflows_async: the workflows to check
PendingQuery(w, t) ==
    /\ w.is_active
    /\ w.current_state = "pending"
    /\ (w.next_check_at.t = "none" \/ w.next_check_at.v <= t)

\* the loop body of _check_pending_workflows_async for one selected
\* workflow: a triggered workflow becomes TRIGGERED and is handed to the
\* execution task, then the session commits
_check_pending_workflows_async(w, env, t) ==
    IF check_workflow(w, env, t).fired
    THEN [check_workflow(w, env, t).row EXCEPT !.current_state = "triggered"]
    ELSE check_workflow(w, env, t).row

\* how one attempt of the execution task goes: the database session cannot
\* be acquired, or ActionExecutionService.execute_action returns, raises
\* GrantViolationError or raises another exception
\* max_retries of the task execute_workflow_action
max_retries == 3

TaskOutcomes == {"no_session", "ok", "grant_violation", "error"}

\* _execute_workflow_action_async rescheduling every completed workflow
_execute_workflow_action_async_AllRecur(w, outcome, t) ==
    IF outcome # "ok"
    THEN [w EXCEPT !.current_state = "failed", !.last_error_message = JStr(<<outcome>>)]
    ELSE [w EXCEPT !.current_state = "pending",
                   !.next_check_at =
                       JInt(t + GetOr(w.trigger_config, K("minutes"), JInt(60)).v)]

\* _execute_workflow_action_async once it holds a session: EXECUTING,
\* execute_action, then COMPLETED, or FAILED with the error text when
\* execute_action raised (the except clause does not re-raise); a
\* completed recurring time trigger is rescheduled and set back to PENDING
_execute_workflow_action_async(w, outcome, t) ==
    IF outcome # "ok"
    THEN [w EXCEPT !.current_state = "failed", !.last_error_message = JStr(<<outcome>>)]
    ELSE IF /\ w.trigger_type = "time_trigger"
            /\ IsText(DictGet(w.trigger_config, K("schedule_type")), <<"interval">>)
    THEN [w EXCEPT !.current_state = "pending",
                   !.next_check_at =
                       JInt(t + GetOr(w.trigger_config, K("minutes"), JInt(60)).v)]
    ELSE [w EXCEPT !.current_state = "completed"]

\* execute_workflow_action: self.retry is reached only when
\* _execute_workflow_action_async raises, which it does only before its try
\* block (no session)
TaskRetries(outcome) == outcome = "no_session"

----------------------------------------------------------------------------
(* State *)

VARIABLES
    wf,        \* the workflow row: [user_id, nodes, edges, is_active]
    grants,    \* the session_key_grants rows, in query order
    runs,      \* the trigger requests that arrive for the workflow
    exec,      \* per request: position, the in-memory WorkflowExecution and
               \* history: the nodes visited, what each finished node
               \* produced and where the cursor went, the calls made, the
               \* row after each commit, and how execute_for_workflow
               \* ended for its caller ("returned" | "raised")
    db,        \* per request: the persisted workflow execution row
    breaker,   \* blockchain_manager.breaker
    now,       \* the clock
    calls,     \* manager calls made directly (history of the last one)
    rs,        \* a direct use of the expression resolver: input and result
    mon,       \* a polled workflow: its stored row, the number of trigger
               \* checks made and the history of the last one
    lim,       \* a direct use of the spend-limit check: the grant, the
               \* transactions checked so far and the answers given
    act,       \* a direct use of ActionExecutionService.execute_action:
               \* the workflow row, the market and what the call did
    race,      \* the pending sweep and the task it enqueues, each with its
               \* own session, over one persisted workflow row
    retry      \* a workflow row under update_state and schedule_retry calls

vars == <<wf, grants, runs, exec, db, breaker, now, calls, rs, mon, lim, act, race, retry>>

RunIds == {1, 2}

IdleRun ==
    [pc |-> "idle", mem |-> NewExecution, visited |-> <<>>, finished |-> <<>>,
     events |-> <<>>, persisted |-> <<>>, outcome |-> "none"]

\* what a commit left in the execution's row
Snapshot(row) ==
    [status |-> row.status, current_node_id |-> row.current_node_id,
     execution_data |-> row.execution_data]

NoCalls ==
    [n |-> 0, streak |-> 0, pre_streak |-> 0, pre_breaker |-> BreakerClosed,
     primary |-> "none", fallback |-> "none",
     primary_invoked |-> FALSE, fallback_invoked |-> FALSE, result |-> "none",
     carried |-> NoErrors, at |-> 0]

NoPolledRow ==
    [current_state |-> "none", trigger_type |-> "none", trigger_config |-> EmptyDict,
     state |-> JNone, upkeep_id |-> JNone, is_active |-> FALSE,
     next_check_at |-> JNone, last_error_message |-> JNone]

\* the outside world of a check: the chain node, the feed, Etherscan, Twitter
DefaultEnv ==
    [web3 |-> TRUE, chain |-> [kind |-> "ok", current_block |-> 1200, events |-> {}],
     feed |-> [kind |-> "parsed", dated |-> {}, undated |-> FALSE],
     api_key |-> TRUE, evm |-> [kind |-> "ok", blocks |-> {}],
     twitter |-> TRUE, tweets |-> [kind |-> "none", id |-> 0],
     market |-> [kind |-> "ok", price |-> 0]]

\* a trigger check: which code made it, the row it read, the outside world
\* it saw and what the poller returned
NoCheck ==
    [path |-> "none", checker |-> "none", before |-> NoPolledRow,
     env |-> DefaultEnv, fired |-> FALSE, returned |-> JNone]

\* the execution tasks of the workflow: how many are queued, the retries of
\* the one at the head, the runs the trigger paths started, the
\* WorkflowExecution rows created for them, and the last attempt
NoJobs ==
    [queued |-> 0, retries |-> 0, triggered |-> 0, executions |-> 0,
     outcome |-> "none", retried |-> FALSE, before |-> NoPolledRow]

NoMonitor ==
    [row |-> NoPolledRow, n |-> 0, last |-> NoCheck, prev |-> NoCheck,
     source |-> DefaultEnv, jobs |-> NoJobs]

NoLim == [phase |-> "off"]

NoAct == [phase |-> "off"]

NoRace == [phase |-> "off"]

NoRetry == [phase |-> "off"]

NoResolve == [phase |-> "off", config |-> <<>>, data |-> EmptyDict,
              out |-> [exc |-> "none", config |-> <<>>, placeholder |-> <<>>,
                       path |-> <<>>]]

----------------------------------------------------------------------------
(* execute_for_workflow, one action per stretch between persisted steps *)

\* Trigger starting again on the WorkflowExecution of a finished request
Trigger_Reuse(r) ==
    /\ r \in runs
    /\ exec[r].pc \in {"idle", "done"}
    /\ wf.nodes # <<>>
    /\ StartNodeId(wf.nodes, wf.edges) # NoNode
    /\ exec' = [exec EXCEPT
                  ![r].pc = "running",
                  ![r].mem = Refresh(Commit(start_execution(exec[r].mem,
                                               StartNodeId(wf.nodes, wf.edges)), db[r])),
                  ![r].persisted = <<Snapshot(Commit(start_execution(exec[r].mem,
                                               StartNodeId(wf.nodes, wf.edges)), db[r]))>>]
    /\ db' = [db EXCEPT ![r] = Commit(start_execution(exec[r].mem,
                                         StartNodeId(wf.nodes, wf.edges)), db[r])]
    /\ UNCHANGED <<wf, grants, runs, breaker, now, calls, rs, mon, lim, act, race, retry>>

\* POST /{workflow_id}/trigger up to the first commit and refresh of
\* execute_for_workflow (lines 40-53); the endpoint selects the workflow by
\* id and owner and does not read is_active
Trigger(r) ==
    /\ r \in runs
    /\ exec[r].pc = "idle"
    /\ LET start_node_id == StartNodeId(wf.nodes, wf.edges) IN
       IF wf.nodes = <<>> \/ start_node_id = NoNode
       THEN /\ exec' = [exec EXCEPT ![r].pc = "mock"]
            /\ db' = db
       ELSE LET m == start_execution(NewExecution, start_node_id)
                row == Commit(m, db[r])
            IN /\ exec' = [exec EXCEPT ![r].pc = "running", ![r].mem = Refresh(row),
                                       ![r].persisted = <<Snapshot(row)>>]
               /\ db' = [db EXCEPT ![r] = row]
    /\ UNCHANGED <<wf, grants, runs, breaker, now, calls, rs, mon, lim, act, race, retry>>

\* except and finally (lines 129-134): fail_execution, then commit; the
\* except clause has no raise, so the method returns normally
StepFailed(m, row, e, br, evs, vis) ==
    [pc |-> "done", mem |-> Committed(fail_execution(m, e)),
     row |-> Commit(fail_execution(m, e), row),
     breaker |-> br, events |-> evs, visited |-> vis, finished |-> <<>>,
     outcome |-> "returned"]

\* lines 118-121 with the in-memory execution m3 after advance_to_node
StepPersisted(m3, row, h, cur) ==
    [pc |-> "running", mem |-> Refresh(Commit(m3, row)), row |-> Commit(m3, row),
     breaker |-> h.breaker, events |-> h.events, visited |-> <<cur>>,
     finished |-> <<[node |-> cur, output |-> h.output,
                     next |-> Refresh(Commit(m3, row)).current_node_id]>>,
     outcome |-> "none"]

\* lines 105-121: the handler has answered (h)
StepHandled(m, row, node, h) ==
    IF h.exc # NoExc
    THEN StepFailed(m, row, h.exc, h.breaker, h.events, <<node.id>>)
    ELSE StepPersisted(
            advance_to_node(
                RecordNodeOutput(IF node.type = "condition" THEN m
                                 ELSE set_transaction_hash(m, h.tx_hash),
                                 m.current_node_id, h.output),
                h.next),
            row, h, m.current_node_id)

\* lines 73-116 with the resolved config
StepResolved(m, row, env, node, resolved) ==
    IF resolved.exc # "none"
    THEN StepFailed(m, row, [exc |-> resolved.exc, msg |-> "resolve",
                             placeholder |-> resolved.placeholder,
                             path |-> resolved.path],
                    breaker, <<>>, <<node.id>>)
    ELSE StepHandled(m, row, node,
            IF node.type = "condition"
            THEN HandleCondition(node, resolved.config, wf.edges, breaker, now, env)
            ELSE HandleAction(node, resolved.config, wf.edges, wf.user_id, grants,
                              breaker, now, env))

StepFound(m, row, env, found) ==
    IF found = <<>>
    THEN StepFailed(m, row, Exc("ValueError", "node_not_found"), breaker, <<>>, <<>>)
    ELSE StepResolved(m, row, env, found[1],
                      _resolve_inputs(found[1].config, m.execution_data))

\* one iteration of the while loop (lines 61-121); an exception goes to the
\* except and finally clauses (lines 129-134)
StepOutcome(m, row, env) == StepFound(m, row, env, NodesMapGet(wf.nodes, m.current_node_id))

MaxSteps == 4

CurrentType(node_id) ==
    LET found == NodesMapGet(wf.nodes, node_id)
    IN IF found = <<>> THEN "" ELSE found[1].type

ApplyStep(r, o) ==
    /\ exec' = [exec EXCEPT ![r] =
                  [pc |-> o.pc, mem |-> o.mem,
                   visited |-> exec[r].visited \o o.visited,
                   finished |-> exec[r].finished \o o.finished,
                   events |-> exec[r].events \o o.events,
                   persisted |-> Append(exec[r].persisted, Snapshot(o.row)),
                   outcome |-> o.outcome]]
    /\ db' = [db EXCEPT ![r] = o.row]
    /\ breaker' = o.breaker

NodeStep(r) ==
    /\ r \in runs
    /\ exec[r].pc = "running"
    /\ exec[r].mem.current_node_id # NoNode
    /\ Len(exec[r].visited) < MaxSteps
    /\ \E env \in EnvChoices(CurrentType(exec[r].mem.current_node_id)) :
         ApplyStep(r, StepOutcome(exec[r].mem, db[r], env))
    /\ UNCHANGED <<wf, grants, runs, now, calls, rs, mon, lim, act, race, retry>>

\* the loop has ended (lines 123-134): complete_execution(final_result) is
\* called with two arguments, action_results and the transaction hash, so the
\* call raises TypeError, which the except clause turns into fail_execution
Finish(r) ==
    /\ r \in runs
    /\ exec[r].pc = "running"
    /\ exec[r].mem.current_node_id = NoNode
    /\ LET f == fail_execution(exec[r].mem,
                               Exc("TypeError", "complete_execution arguments"))
       IN /\ exec' = [exec EXCEPT ![r].pc = "done", ![r].mem = Committed(f),
                                   ![r].persisted = Append(@, Snapshot(Commit(f, db[r]))),
                                   ![r].outcome = "returned"]
          /\ db' = [db EXCEPT ![r] = Commit(f, db[r])]
    /\ UNCHANGED <<wf, grants, runs, breaker, now, calls, rs, mon, lim, act, race, retry>>

NextEngine == \E r \in RunIds : Trigger(r) \/ NodeStep(r) \/ Finish(r)

----------------------------------------------------------------------------
(* Initial states: the workflows, grant tables and requests explored *)

N1 == <<"n1">>
N2 == <<"n2">>
N3 == <<"n3">>

ASSET_A == <<"0x", "A">>
ASSET_AB == <<"0x", "A", "B">>

Item(key, val) == [k |-> K(key), v |-> val]

ConditionConfig(value) ==
    <<Item("source", JStr(<<"price_feed:X">>)), Item("operator", JStr(<<">">>)),
      Item("value", value), Item("chain", JStr(<<"c">>))>>

BridgeConfig(amount) ==
    <<Item("asset", JStr(ASSET_A)), Item("amount", amount),
      Item("from_chain", JStr(<<"c">>)), Item("to_chain", JStr(<<"d">>))>>

SwapConfig(amount) ==
    <<Item("from_asset", JStr(ASSET_A)), Item("to_asset", JStr(ASSET_AB)),
      Item("amount", amount), Item("from_chain", JStr(<<"c">>)),
      Item("to_chain", JStr(<<"d">>))>>

Node(id, type, config) == [id |-> id, type |-> type, config |-> config]

DefaultNode(id, type) ==
    Node(id, type, IF type = "condition" THEN ConditionConfig(JInt(10))
                   ELSE IF type = "swap" THEN SwapConfig(JInt(5))
                   ELSE BridgeConfig(JInt(5)))

Edge(source, target, label) == [source |-> source, target |-> target, label |-> label]

Labels == {"on_true", "on_false", "default", ""}

EdgeUniverse ==
    {Edge(st[1], st[2], l) :
        st \in {<<N1, N2>>, <<N1, N3>>, <<N2, N3>>, <<N2, N1>>}, l \in Labels}

MaxEdges == 2

SeqsUpTo(S, n) == UNION {[1..k -> S] : k \in 0..n}

\* graphs over two or three nodes, every edge between existing nodes; with
\* two nodes both can be targets, so that the executed path can be a cycle
GraphWorkflows ==
    {[user_id |-> "u1",
      nodes |-> <<DefaultNode(N1, t1), DefaultNode(N2, t2), DefaultNode(N3, "bridge")>>,
      edges |-> es] :
        t1 \in {"condition", "bridge"}, t2 \in {"condition", "bridge"},
        es \in SeqsUpTo(EdgeUniverse, MaxEdges)}
    \cup
    {[user_id |-> "u1", nodes |-> <<DefaultNode(N1, t1), DefaultNode(N2, t2)>>,
      edges |-> es] :
        t1 \in {"condition", "bridge"}, t2 \in {"condition", "bridge"},
        es \in SeqsUpTo({e \in EdgeUniverse : e.target # N3}, MaxEdges)}

\* "{{" path "}}" followed by suffix
Placeholder(path, suffix) == <<"{", "{">> \o path \o <<"}", "}">> \o suffix

PathsToN1 ==
    {<<"nodes", ".", "n1", ".", "output", ".", "tx_hash">>,
     <<"nodes", "[", "'", "n1", "'", "]", ".", "output", ".", "quote", ".", "amount">>,
     <<"nodes", ".", "n1", ".", "output", ".", "result">>,
     <<"nonexistent_node", ".", "output", ".", "value">>}

\* n1 -> n2 where n2's config refers to an output of n1
DataWorkflows ==
    {[user_id |-> "u1",
      nodes |-> <<DefaultNode(N1, t1),
                  IF t2 = "condition"
                  THEN Node(N2, t2, ConditionConfig(JStr(Placeholder(p, <<>>))))
                  ELSE Node(N2, t2, BridgeConfig(JStr(Placeholder(p, <<>>))))>>,
      edges |-> <<Edge(N1, N2, l)>>] :
        t1 \in {"condition", "bridge"}, t2 \in {"condition", "bridge"},
        p \in PathsToN1, l \in {"on_true", "default"}}

\* one transactional node, against the grant tables
GrantWorkflows ==
    {[user_id |-> "u1", nodes |-> <<Node(N1, "bridge", BridgeConfig(JInt(a)))>>,
      edges |-> <<>>] : a \in {5, 50}}
    \cup {[user_id |-> "u1", nodes |-> <<Node(N1, "swap", SwapConfig(JInt(50)))>>,
           edges |-> <<>>]}

SpendLimits(max) == JDict([x \in {MAX_SPEND_PER_TX} |-> JInt(max)])

GrantUniverse ==
    {[id |-> 0, user_id |-> u, expires_at |-> e, allowed_targets |-> <<a>>,
      has_spend_limits |-> FALSE, spend_limits |-> JNone] :
        u \in {"u1", "u2"}, e \in {50, 1000}, a \in {ASSET_A, ASSET_AB}}
    \cup
    {[id |-> 0, user_id |-> u, expires_at |-> e, allowed_targets |-> <<a>>,
      has_spend_limits |-> TRUE, spend_limits |-> SpendLimits(max)] :
        u \in {"u1", "u2"}, e \in {50, 1000}, a \in {ASSET_A, ASSET_AB},
        max \in {10, 100}}

MaxGrants == 2

\* the rows of the table, each with its position as id
GrantTables ==
    {[i \in DOMAIN t |-> [t[i] EXCEPT !.id = i]] : t \in SeqsUpTo(GrantUniverse, MaxGrants)}

StandardGrants ==
    <<[id |-> 1, user_id |-> "u1", expires_at |-> 1000, allowed_targets |-> <<ASSET_A>>,
       has_spend_limits |-> TRUE, spend_limits |-> SpendLimits(10)]>>

\* two requests for the same workflow; also a workflow without nodes and one
\* whose only node carries no id (node.get('id') is None)
ConcurrentWorkflows ==
    {[user_id |-> "u1",
      nodes |-> <<DefaultNode(N1, t1), DefaultNode(N2, "bridge")>>,
      edges |-> <<Edge(N1, N2, l)>>] :
        t1 \in {"condition", "bridge"}, l \in {"on_true", "default"}}
    \cup {[user_id |-> "u1", nodes |-> <<>>, edges |-> <<>>],
          [user_id |-> "u1", nodes |-> <<DefaultNode(NoNode, "bridge")>>,
           edges |-> <<>>]}

\* a condition node whose on_true edge names a node the workflow lacks
ConditionOnlyWorkflow ==
    [user_id |-> "u1", nodes |-> <<DefaultNode(N1, "condition")>>,
     edges |-> <<Edge(N1, N2, "on_true")>>]

\* workflows with a node whose type is neither condition nor one of the
\* transactional types, first or after a node that succeeds
UnknownTypeWorkflows ==
    {[user_id |-> "u1",
      nodes |-> <<DefaultNode(N1, t[1]), DefaultNode(N2, t[2])>>,
      edges |-> <<Edge(N1, N2, l)>>] :
        t \in {<<"notification", "bridge">>, <<"condition", "notification">>,
               <<"bridge", "transfer">>, <<"condition", "">>},
        l \in {"on_true", "default"}}

\* the workflow row with its is_active column
WorkflowRow(w, active) ==
    [user_id |-> w.user_id, nodes |-> w.nodes, edges |-> w.edges, is_active |-> active]

InitEngine ==
    /\ \/ /\ \E w \in GraphWorkflows : wf = WorkflowRow(w, TRUE)
          /\ grants = StandardGrants /\ runs = {1}
       \/ /\ \E w \in DataWorkflows : wf = WorkflowRow(w, TRUE)
          /\ grants = StandardGrants /\ runs = {1}
       \/ /\ \E w \in GrantWorkflows : wf = WorkflowRow(w, TRUE)
          /\ grants \in GrantTables /\ runs = {1}
       \/ /\ \E w \in ConcurrentWorkflows, active \in BOOLEAN : wf = WorkflowRow(w, active)
          /\ grants = StandardGrants /\ runs = {1, 2}
       \/ /\ wf = WorkflowRow(ConditionOnlyWorkflow, TRUE)
          /\ grants = StandardGrants /\ runs = {1}
       \/ /\ \E w \in UnknownTypeWorkflows : wf = WorkflowRow(w, TRUE)
          /\ grants = StandardGrants /\ runs = {1}
    /\ exec = [r \in RunIds |-> IdleRun]
    /\ db = [r \in RunIds |-> NoRow]
    /\ breaker = BreakerClosed
    /\ now = 100
    /\ calls = NoCalls
    /\ rs = NoResolve
    /\ mon = NoMonitor
    /\ lim = NoLim
    /\ act = NoAct
    /\ race = NoRace
    /\ retry = NoRetry

Spec == InitEngine /\ [][NextEngine]_vars

----------------------------------------------------------------------------
(* The expression resolver on its own *)

MaxConfigEntries == 2

PathsToX ==
    {<<"nodes", ".", "n1", ".", "output", ".", "x">>,
     <<"nodes", "[", "'", "n1", "'", "]", ".", "output", ".", "x">>,
     <<" ", "nodes", ".", "n1", ".", "output", " ">>,
     <<"nodes", ".", "n1", ".", "output", ".", "missing">>,
     <<"nodes", ".", "n1", ".", "output", ".", "x", ".", "deeper">>,
     <<"nonexistent_node", ".", "output", ".", "value">>}

ResolverValues ==
    {JInt(7), JBool(TRUE), JStr(<<"plain">>),
     JStr(<<"amount", " ">> \o Placeholder(<<"nodes", ".", "n1", ".", "output", ".", "x">>, <<>>)),
     JStr(Placeholder(<<"nodes", ".", "node", "-", "0", ".", "output", ".", "x">>, <<>>))}
    \cup {JStr(Placeholder(p, sfx)) : p \in PathsToX, sfx \in {<<>>, <<" ", "units">>}}

ResolverConfigs ==
    {[i \in DOMAIN vs |-> [k |-> K(ToString(i)), v |-> vs[i]]] :
        vs \in SeqsUpTo(ResolverValues, MaxConfigEntries)}

OutputX(val) == JDict([o \in {OUTPUT} |-> JDict([x \in {K("x")} |-> val])])

ResolverData ==
    {EmptyDict,
     JDict([n \in {NODES} |-> JDict([i \in {N1} |-> OutputX(JInt(3))])]),
     JDict([n \in {NODES} |-> JDict([i \in {N1} |-> OutputX(JStr(<<"0xhash">>))])]),
     JDict([n \in {NODES} |-> EmptyDict])}

InitResolve ==
    /\ rs \in [phase : {"input"}, config : ResolverConfigs, data : ResolverData,
               out : {NoResolve.out}]
    /\ wf = [user_id |-> "u1", nodes |-> <<>>, edges |-> <<>>, is_active |-> TRUE]
    /\ grants = <<>>
    /\ runs = {}
    /\ exec = [r \in RunIds |-> IdleRun]
    /\ db = [r \in RunIds |-> NoRow]
    /\ breaker = BreakerClosed
    /\ now = 100
    /\ calls = NoCalls
    /\ mon = NoMonitor
    /\ lim = NoLim
    /\ act = NoAct
    /\ race = NoRace
    /\ retry = NoRetry

\* resolved_config = self._resolve_inputs(action_config, execution_data)
Resolve ==
    /\ rs.phase = "input"
    /\ rs' = [rs EXCEPT !.phase = "done", !.out = _resolve_inputs(rs.config, rs.data)]
    /\ UNCHANGED <<wf, grants, runs, exec, db, breaker, now, calls, mon, lim, act, race, retry>>

SpecResolve == InitResolve /\ [][Resolve]_vars

----------------------------------------------------------------------------
(* The provider manager on its own: calls and the passing of time *)

MaxCalls == 7
MaxNow == 900

InitBreaker ==
    /\ breaker \in {[BreakerClosed EXCEPT !.reads_tuples = x] : x \in BOOLEAN}
    /\ now = 0
    /\ calls = NoCalls
    /\ wf = [user_id |-> "u1", nodes |-> <<>>, edges |-> <<>>, is_active |-> TRUE]
    /\ grants = <<>>
    /\ runs = {}
    /\ exec = [r \in RunIds |-> IdleRun]
    /\ db = [r \in RunIds |-> NoRow]
    /\ rs = NoResolve
    /\ mon = NoMonitor
    /\ lim = NoLim
    /\ act = NoAct
    /\ race = NoRace
    /\ retry = NoRetry

\* the history of a call: the breaker and the streak of counted primary
\* failures before it, the primary's outcome, what the call invoked, how it
\* ended and the errors its exception holds
CallRecord(c, before, streakBefore, t, primary, fallback) ==
    [n |-> calls.n + 1,
     streak |-> IF ~c.primary_invoked THEN streakBefore
                ELSE IF primary = "error" THEN streakBefore + 1 ELSE 0,
     pre_streak |-> streakBefore, pre_breaker |-> before,
     primary |-> IF c.primary_invoked THEN primary ELSE "none",
     fallback |-> IF c.fallback_invoked THEN fallback ELSE "none",
     primary_invoked |-> c.primary_invoked, fallback_invoked |-> c.fallback_invoked,
     result |-> c.result, carried |-> c.carried, at |-> t]

\* one call of a manager operation, e.g. blockchain_manager.get_onchain_data
ManagerCall ==
    /\ calls.n < MaxCalls
    /\ \E primary \in PrimaryOutcomes, fallback \in AdapterOutcomes :
         /\ calls' = CallRecord(_execute_with_breaker(breaker, now, primary, fallback),
                                breaker, calls.streak, now, primary, fallback)
         /\ breaker' = _execute_with_breaker(breaker, now, primary, fallback).breaker
    /\ UNCHANGED <<wf, grants, runs, exec, db, now, rs, mon, lim, act, race, retry>>

Tick ==
    /\ \E d \in {150, 300} : now + d <= MaxNow /\ now' = now + d
    /\ UNCHANGED <<wf, grants, runs, exec, db, breaker, calls, rs, mon, lim, act, race, retry>>

NextBreaker == ManagerCall \/ Tick

SpecBreaker == InitBreaker /\ [][NextBreaker]_vars

----------------------------------------------------------------------------
(* The trigger checks of a polled workflow: the monitoring cycle for active
   workflows and the pending-workflow sweep of the trigger evaluator *)

MaxChecks == 2

Dict3(k1, v1, k2, v2, k3, v3) ==
    JDict([k \in {k1, k2, k3} |-> IF k = k1 THEN v1 ELSE IF k = k2 THEN v2 ELSE v3])

Dict2(k1, v1, k2, v2) == JDict([k \in {k1, k2} |-> IF k = k1 THEN v1 ELSE v2])

Dict1(k1, v1) == JDict([k \in {k1} |-> v1])

\* trigger configurations as users declare them
MonitoredConfigs ==
    {Dict2(K("type"), JStr(<<"price_condition">>), K("asset"), JStr(<<"AVAX">>)),
     Dict2(K("type"), JStr(<<"rss_feed">>),
           K("params"), Dict1(K("feed_url"), JStr(<<"feed">>))),
     Dict2(K("type"), JStr(<<"rss_feed">>), K("params"), EmptyDict),
     Dict2(K("type"), JStr(<<"wallet_transaction">>),
           K("params"), Dict2(K("type"), JStr(<<"wallet_transaction">>),
                              K("address"), JStr(<<"0x", "A">>))),
     Dict2(K("type"), JStr(<<"smart_contract_event">>),
           K("params"), Dict1(K("type"), JStr(<<"smart_contract_event">>))),
     Dict1(K("type"), JStr(<<"time">>))}

PendingConfigs ==
    {Dict2(K("source"), JStr(<<"rss">>),
           K("params"), Dict1(K("feed_url"), JStr(<<"feed">>))),
     Dict2(K("source"), JStr(<<"evm">>),
           K("params"), Dict2(K("type"), JStr(<<"wallet_transaction">>),
                              K("address"), JStr(<<"0x", "A">>))),
     Dict2(K("source"), JStr(<<"twitter">>),
           K("params"), Dict2(K("type"), JStr(<<"user_tweets">>),
                              K("username"), JStr(<<"name">>))),
     Dict1(K("source"), JStr(<<"webhook">>))}

\* poller states left by earlier checks
PollerStates ==
    {JNone, Dict1(K("last_entry_timestamp"), JInt(5)),
     Dict1(K("last_checked_block"), JInt(40))}

\* trigger configurations of the workflows the pending sweep evaluates
SweepConfigs ==
    [price_trigger |->
        {Dict3(K("asset"), JStr(<<"AVAX">>), K("condition"), JStr(<<"above">>),
               K("value"), JInt(10)),
         Dict3(K("asset"), JStr(<<"AVAX">>), K("condition"), JStr(<<"below">>),
               K("value"), JInt(10)),
         Dict2(K("asset"), JStr(<<"AVAX">>), K("condition"), JStr(<<"above">>))},
     time_trigger |->
        {Dict1(K("schedule_type"), JStr(<<"interval">>)),
         Dict2(K("schedule_type"), JStr(<<"interval">>), K("minutes"), JInt(5)),
         Dict2(K("schedule_type"), JStr(<<"interval">>), K("minutes"), JInt(0)),
         Dict1(K("schedule_type"), JStr(<<"once">>))},
     polling_event |->
        {Dict2(K("source"), JStr(<<"rss">>),
               K("params"), Dict1(K("feed_url"), JStr(<<"feed">>)))},
     manual_trigger |-> {EmptyDict}]

\* workflows in every state, active or not, due or not
SweepWorkflows ==
    UNION {{[current_state |-> cs, trigger_type |-> tt, trigger_config |-> c,
             state |-> JNone, upkeep_id |-> JNone, is_active |-> a,
             next_check_at |-> nc, last_error_message |-> JNone] :
                cs \in {"pending", "active", "triggered", "executing",
                        "waiting_signature", "completed", "failed", "cancelled",
                        "paused"},
                c \in SweepConfigs[tt], a \in BOOLEAN,
                nc \in {JNone, JInt(50), JInt(150)}} : tt \in DOMAIN SweepConfigs}

PolledWorkflows ==
    {[current_state |-> "active", trigger_type |-> "onchain_event_trigger",
      trigger_config |-> c, state |-> st, upkeep_id |-> u, is_active |-> TRUE,
      next_check_at |-> JNone, last_error_message |-> JNone] :
        c \in MonitoredConfigs, st \in PollerStates,
        u \in {JNone, JStr(<<"7">>), JStr(<<"x">>)}}
    \cup
    {[current_state |-> "pending", trigger_type |-> "polling_event",
      trigger_config |-> c, state |-> st, upkeep_id |-> JNone, is_active |-> TRUE,
      next_check_at |-> JNone, last_error_message |-> JNone] :
        c \in PendingConfigs, st \in PollerStates}

\* what the outside world answers to one check
PollEnvs ==
    {[DefaultEnv EXCEPT !.web3 = b,
                        !.chain = [kind |-> k, current_block |-> c, events |-> ev]] :
        b \in BOOLEAN, k \in {"ok", "error"}, c \in {1200, 1300},
        ev \in {{}, {1150}, {1150, 1250}}}
    \cup {[DefaultEnv EXCEPT !.feed = [kind |-> k, dated |-> d, undated |-> u]] :
            k \in {"bozo", "error", "parsed"}, d \in {{}, {5}, {5, 9}}, u \in BOOLEAN}
    \cup {[DefaultEnv EXCEPT !.api_key = b, !.evm = [kind |-> k, blocks |-> bs]] :
            b \in BOOLEAN, k \in {"ok", "error"}, bs \in {{}, {40}, {40, 50}}}
    \cup {[DefaultEnv EXCEPT !.twitter = b, !.tweets = [kind |-> k, id |-> 8]] :
            b \in BOOLEAN, k \in {"tweets", "none", "error"}}
    \cup {[DefaultEnv EXCEPT !.market = [kind |-> k, price |-> p]] :
            k \in {"ok", "error"}, p \in {5, 15}}

InitMonitor ==
    /\ lim = NoLim
    /\ act = NoAct
    /\ race = NoRace
    /\ retry = NoRetry
    /\ mon \in [row : PolledWorkflows \cup SweepWorkflows, n : {0}, last : {NoCheck},
               prev : {NoCheck}, source : {DefaultEnv}, jobs : {NoJobs}]
    /\ wf = [user_id |-> "u1", nodes |-> <<>>, edges |-> <<>>, is_active |-> TRUE]
    /\ grants = <<>>
    /\ runs = {}
    /\ exec = [r \in RunIds |-> IdleRun]
    /\ db = [r \in RunIds |-> NoRow]
    /\ breaker = BreakerClosed
    /\ now = 100
    /\ calls = NoCalls
    /\ rs = NoResolve

\* the chain does not run backwards
EnvPossible(w, env) ==
    /\ env.chain.current_block >=
        GetOr(CheckerState(OrEmpty(w.trigger_config)), K("chainlink_last_block"), JInt(0)).v
    /\ \A b \in env.chain.events : b <= env.chain.current_block

\* the statement of monitor_active_workflows: the workflows to monitor
ActiveQuery(w) == w.is_active /\ w.current_state = "active"

\* one cycle of monitor_active_workflows over the workflow.  A fired check
\* starts a run through action_executor.execute_workflow_action, a method
\* ActionExecutorService does not have: no WorkflowExecution is created.
MonitorCycle ==
    /\ mon.n < MaxChecks
    /\ ActiveQuery(mon.row)
    /\ \E env \in PollEnvs :
         /\ EnvPossible(mon.row, env)
         /\ mon' = [row |-> monitor_active_workflows(mon.row, env, now),
                    n |-> mon.n + 1, prev |-> mon.prev, source |-> mon.source,
                    last |-> [path |-> "monitor", checker |-> MonitorChecker(mon.row),
                              before |-> mon.row, env |-> env,
                              fired |-> /\ MonitorChecker(mon.row) # "none"
                                        /\ MonitorCheck(mon.row, env, now).fired,
                              returned |-> IF MonitorChecker(mon.row) = "none" THEN JNone
                                           ELSE MonitorCheck(mon.row, env, now).state],
                    jobs |-> IF /\ MonitorChecker(mon.row) # "none"
                                /\ MonitorCheck(mon.row, env, now).fired
                             THEN [mon.jobs EXCEPT !.triggered = @ + 1]
                             ELSE mon.jobs]
    /\ UNCHANGED <<wf, grants, runs, exec, db, breaker, now, calls, rs, lim, act, race, retry>>

\* the checker check_workflow reaches for a polling_event workflow
SweepChecker(w, env) ==
    IF can_be_triggered(w) /\ w.trigger_type = "polling_event"
    THEN PollingChecker(w, env.twitter)
    ELSE "none"

\* one sweep of check_pending_workflows over the workflow, when the
\* statement selects it; a triggered workflow is handed to the execution
\* task with execute_workflow_action.delay
CheckPending ==
    /\ mon.n < MaxChecks
    /\ PendingQuery(mon.row, now)
    /\ \E env \in PollEnvs :
         mon' = [row |-> _check_pending_workflows_async(mon.row, env, now),
                 n |-> mon.n + 1, prev |-> mon.prev, source |-> mon.source,
                 last |-> [path |-> "evaluator",
                           checker |-> SweepChecker(mon.row, env),
                           before |-> mon.row, env |-> env,
                           fired |-> check_workflow(mon.row, env, now).fired,
                           returned |-> IF SweepChecker(mon.row, env) = "none"
                                        THEN JNone
                                        ELSE PollingCheck(mon.row, env, now).state],
                 jobs |-> IF check_workflow(mon.row, env, now).fired
                          THEN [mon.jobs EXCEPT !.triggered = @ + 1, !.queued = @ + 1]
                          ELSE mon.jobs]
    /\ UNCHANGED <<wf, grants, runs, exec, db, breaker, now, calls, rs, lim, act, race, retry>>

\* check_workflow applied to a workflow in any state; the caller stores
\* nothing (one application per state of the row)
CheckWorkflow ==
    /\ mon.n < MaxChecks
    /\ mon.last.path # "check_workflow"
    /\ \E env \in PollEnvs :
         mon' = [mon EXCEPT !.n = @ + 1,
                            !.last = [path |-> "check_workflow",
                                      checker |-> SweepChecker(mon.row, env),
                                      before |-> mon.row, env |-> env,
                                      fired |-> check_workflow(mon.row, env, now).fired,
                                      returned |-> JNone]]
    /\ UNCHANGED <<wf, grants, runs, exec, db, breaker, now, calls, rs, lim, act, race, retry>>

\* one attempt of the task execute_workflow_action at the head of the
\* queue.  When _execute_workflow_action_async raises, self.retry queues
\* the task again until max_retries is used up; otherwise the task is done.
\* The task runs ActionExecutionService.execute_action, which creates no
\* WorkflowExecution row (only ActionExecutorService.execute_for_workflow
\* does), so the count of executions stays as it is.
ExecuteTask ==
    /\ mon.jobs.queued > 0
    /\ \E outcome \in TaskOutcomes :
         mon' = [mon EXCEPT
                   !.row = IF outcome = "no_session" THEN @
                           ELSE _execute_workflow_action_async(@, outcome, now),
                   !.jobs = [@ EXCEPT
                               !.outcome = outcome,
                               !.before = mon.row,
                               !.retried = TaskRetries(outcome) /\ mon.jobs.retries < max_retries,
                               !.retries = IF TaskRetries(outcome) /\ @ < max_retries
                                           THEN @ + 1 ELSE 0,
                               !.queued = IF TaskRetries(outcome)
                                             /\ mon.jobs.retries < max_retries
                                          THEN @ ELSE @ - 1]]
    /\ UNCHANGED <<wf, grants, runs, exec, db, breaker, now, calls, rs, lim, act, race, retry>>

NextMonitor == MonitorCycle \/ CheckPending \/ CheckWorkflow \/ ExecuteTask

SpecMonitor == InitMonitor /\ [][NextMonitor]_vars

----------------------------------------------------------------------------
(* The pollers on their own: repeated polls of one source, with the state a
   poll returns stored where the poller reads it *)

MaxPolls == 4

\* the block the chain has reached at time t
BlockAt(t) == 1100 + t

\* the pollers of the specification: RSS and EVM read workflow.state,
\* Chainlink reads trigger_config["_checker_state"]
PollerOf(w) ==
    IF w.current_state = "active" THEN MonitorChecker(w) ELSE PollingChecker(w, FALSE)

PollableWorkflows ==
    {w \in PolledWorkflows :
        /\ PollerOf(w) \in {"rss", "evm", "chainlink"}
        /\ w.current_state = "active" => PollerOf(w) = "chainlink" /\ IsDecimal(w.upkeep_id.v)}

\* sources that answer: a parsed feed, Etherscan and a chain node
PollSources ==
    {env \in PollEnvs :
        /\ env.web3 /\ env.api_key
        /\ env.chain.kind = "ok" /\ env.feed.kind = "parsed" /\ env.evm.kind = "ok"
        /\ env.chain.current_block = 1200}

\* the source as a poll at time t sees it
SourceAt(source, t) == [source EXCEPT !.chain.current_block = BlockAt(t)]

\* the poll and the code that stores its state: _check_polling_event for
\* RSS and EVM (workflow.state), the monitoring cycle for Chainlink
\* (trigger_config)
Polled(w, env, t) ==
    IF PollerOf(w) = "chainlink" THEN monitor_active_workflows(w, env, t)
    ELSE _check_polling_event(w, env, t).row

PolledCheck(w, env, t) ==
    IF PollerOf(w) = "chainlink" THEN MonitorCheck(w, env, t) ELSE PollingCheck(w, env, t)

InitPoll ==
    /\ lim = NoLim
    /\ act = NoAct
    /\ race = NoRace
    /\ retry = NoRetry
    /\ mon \in [row : PollableWorkflows, n : {0}, last : {NoCheck}, prev : {NoCheck},
               source : PollSources, jobs : {NoJobs}]
    /\ wf = [user_id |-> "u1", nodes |-> <<>>, edges |-> <<>>, is_active |-> TRUE]
    /\ grants = <<>>
    /\ runs = {}
    /\ exec = [r \in RunIds |-> IdleRun]
    /\ db = [r \in RunIds |-> NoRow]
    /\ breaker = BreakerClosed
    /\ now = 100
    /\ calls = NoCalls
    /\ rs = NoResolve

\* one poll of the source; time passes between polls
Poll ==
    /\ mon.n < MaxPolls
    /\ mon' = [row |-> Polled(mon.row, SourceAt(mon.source, now), now),
               n |-> mon.n + 1, prev |-> mon.last, source |-> mon.source,
               jobs |-> mon.jobs,
               last |-> [path |-> "poll", checker |-> PollerOf(mon.row),
                         before |-> mon.row, env |-> mon.source,
                         fired |-> PolledCheck(mon.row, SourceAt(mon.source, now), now).fired,
                         returned |-> PolledCheck(mon.row, SourceAt(mon.source, now), now).state]]
    /\ now' = now + 1
    /\ UNCHANGED <<wf, grants, runs, exec, db, breaker, calls, rs, lim, act, race, retry>>

\* the source publishes a new item: a feed entry, a transaction of the
\* wallet, an UpkeepPerformed event in the current block
Publish ==
    /\ mon.n < MaxPolls
    /\ \/ 12 \notin mon.source.feed.dated
          /\ mon' = [mon EXCEPT !.source.feed.dated = @ \cup {12}]
       \/ 60 \notin mon.source.evm.blocks
          /\ mon' = [mon EXCEPT !.source.evm.blocks = @ \cup {60}]
       \/ BlockAt(now) \notin mon.source.chain.events
          /\ mon' = [mon EXCEPT !.source.chain.events = @ \cup {BlockAt(now)}]
    /\ UNCHANGED <<wf, grants, runs, exec, db, breaker, now, calls, rs, lim, act, race, retry>>

NextPoll == Poll \/ Publish

SpecPoll == InitPoll /\ [][NextPoll]_vars

----------------------------------------------------------------------------
(* Properties of the engine, checked under Spec *)

Range(seq) == {seq[i] : i \in DOMAIN seq}

Executing(r) == db[r].exists /\ db[r].status = "IN_PROGRESS"

\* C1: for one workflow at most one Execution is executing (IN_PROGRESS) at
\* any moment; a second trigger arriving while one is executing does not
\* give a second executing Execution.
C1_AtMostOneExecuting == Cardinality({r \in RunIds : Executing(r)}) <= 1

ExecuteOps == {ExecuteOp(ty) : ty \in TransactionalTypes}

\* the call at position i of a request's history is the provider's execute
\* operation of a node step that began with a grant lookup for the same node,
\* target contract and value, and the lookup returned a grant
AfterGrantLookup(evs, i) ==
    /\ i >= 3
    /\ evs[i - 2].op = "grant_lookup"
    /\ evs[i - 2].grant # NoGrant
    /\ evs[i - 1].op = "sign"
    /\ \A j \in {i - 2, i - 1} :
         /\ evs[j].node = evs[i].node
         /\ evs[j].target = evs[i].target
         /\ evs[j].value = evs[i].value
         /\ evs[j].grant = evs[i].grant

\* C2: every call of a provider execute operation is preceded, in the same
\* node step, by a grant lookup for that node's target contract and value that
\* returned a grant; a lookup that returns none is followed by neither a
\* signature nor an execute call.
C2_ExecuteOnlyAfterGrant ==
    \A r \in RunIds : \A i \in DOMAIN exec[r].events :
        /\ exec[r].events[i].op \in ExecuteOps => AfterGrantLookup(exec[r].events, i)
        /\ (exec[r].events[i].op = "grant_lookup" /\ exec[r].events[i].grant = NoGrant)
              => i = Len(exec[r].events)

C2_Witness ==
    \E r \in RunIds :
        /\ exec[r].finished # <<>>
        /\ \E i \in DOMAIN exec[r].events :
              /\ exec[r].events[i].op = "execute_bridge"
              /\ exec[r].events[i].grant # NoGrant

\* every grant row of the workflow's user declares a per-transaction limit
\* below the amount
ExceedsEveryGrant(amount) ==
    /\ grants # <<>>
    /\ \A i \in DOMAIN grants :
         /\ grants[i].user_id = wf.user_id
         /\ grants[i].has_spend_limits
         /\ grants[i].spend_limits.t = "dict"
         /\ MAX_SPEND_PER_TX \in DOMAIN grants[i].spend_limits.v
         /\ grants[i].spend_limits.v[MAX_SPEND_PER_TX].t = "int"
         /\ grants[i].spend_limits.v[MAX_SPEND_PER_TX].v < amount

\* C3: a workflow whose start node is a swap of an amount above the
\* max_spend_per_tx of every grant of the user ends FAILED with a grant
\* (signing) error after a grant lookup that returned none, failed_at_node is
\* the swap node, and no execute call was made.
C3_SwapOverLimitDenied ==
    \A r \in RunIds :
        (/\ exec[r].pc = "done"
         /\ wf.nodes # <<>>
         /\ wf.nodes[1].type = "swap"
         /\ ConfigGet(wf.nodes[1].config, K("amount")) = JInt(50)
         /\ ExceedsEveryGrant(50))
        => /\ db[r].status = "FAILED"
           /\ db[r].result.error.exc = "SigningException"
           /\ db[r].result.failed_at_node = wf.nodes[1].id
           /\ \E i \in DOMAIN exec[r].events :
                exec[r].events[i].op = "grant_lookup" /\ exec[r].events[i].grant = NoGrant
           /\ \A i \in DOMAIN exec[r].events : exec[r].events[i].op \notin ExecuteOps

\* the edges the engine can follow: from a condition node the first edge
\* labelled on_true and the first labelled on_false, from any other node the
\* first edge labelled default or carrying no label
FirstEdge(node_id, labels) ==
    LET idx == {i \in DOMAIN wf.edges :
                   wf.edges[i].source = node_id /\ wf.edges[i].label \in labels}
    IN IF idx = {} THEN {} ELSE {wf.edges[CHOOSE i \in idx : \A j \in idx : i <= j]}

TypeOfNode(node_id) ==
    LET idx == {i \in DOMAIN wf.nodes : wf.nodes[i].id = node_id}
    IN IF idx = {} THEN "" ELSE wf.nodes[CHOOSE i \in idx : TRUE].type

Followable(node_id) ==
    IF TypeOfNode(node_id) = "condition"
    THEN FirstEdge(node_id, {"on_true"}) \cup FirstEdge(node_id, {"on_false"})
    ELSE FirstEdge(node_id, {"default", ""})

Successors(S) == {e.target : e \in UNION {Followable(n) : n \in S}}

RECURSIVE ReachableIn(_, _)
ReachableIn(S, k) == IF k = 0 THEN {} ELSE Successors(S) \cup ReachableIn(Successors(S), k - 1)

AcyclicPaths ==
    \A i \in DOMAIN wf.nodes : wf.nodes[i].id \notin ReachableIn({wf.nodes[i].id}, Len(wf.nodes))

\* C4: when the edges the engine can follow form no cycle, an execution takes
\* at most as many node steps as the workflow has nodes.
C4_StepsBoundedByNodeCount ==
    \A r \in RunIds : AcyclicPaths => Len(exec[r].visited) <= Len(wf.nodes)

C4_Witness ==
    \E r \in RunIds :
        /\ AcyclicPaths
        /\ Len(wf.nodes) = 3
        /\ Len(exec[r].visited) = 3
        /\ exec[r].pc = "done"

ResultOf(f) == f.output.v[K("result")].v

TargetOfFirst(node_id, label) == {e.target : e \in FirstEdge(node_id, {label})}

\* C5: after a condition node whose comparison was true and which has an
\* on_true edge, the cursor is the target of that edge (and of no on_false edge
\* going elsewhere); likewise with false and on_false.
C5_BranchFollowsResult ==
    \A r \in RunIds : \A i \in DOMAIN exec[r].finished :
        LET f == exec[r].finished[i] IN
        TypeOfNode(f.node) = "condition" =>
           /\ (ResultOf(f) /\ TargetOfFirst(f.node, "on_true") # {})
                 => {f.next} = TargetOfFirst(f.node, "on_true")
           /\ (~ResultOf(f) /\ TargetOfFirst(f.node, "on_false") # {})
                 => {f.next} = TargetOfFirst(f.node, "on_false")

C5_Witness ==
    \E r \in RunIds : \E i \in DOMAIN exec[r].finished :
        /\ TypeOfNode(exec[r].finished[i].node) = "condition"
        /\ ResultOf(exec[r].finished[i])
        /\ TargetOfFirst(exec[r].finished[i].node, "on_true") = {N2}
        /\ TargetOfFirst(exec[r].finished[i].node, "on_false") = {N3}
        /\ exec[r].mem.current_node_id = N2

\* the node ids that have an entry in execution_data
RecordedNodes(data) ==
    IF data.t = "dict" /\ NODES \in DOMAIN data.v /\ data.v[NODES].t = "dict"
    THEN DOMAIN data.v[NODES].v ELSE {}

FinishedNodes(r) == {exec[r].finished[i].node : i \in DOMAIN exec[r].finished}

\* C6: after an execution, its execution_data holds an entry, keyed by node
\* id, for every node whose step was completed and for no node that was not
\* visited.
C6_OneEntryPerVisitedNode ==
    \A r \in RunIds :
        exec[r].pc = "done" =>
           /\ FinishedNodes(r) \subseteq RecordedNodes(db[r].execution_data)
           /\ RecordedNodes(db[r].execution_data) \subseteq Range(exec[r].visited)

\* the item of B's config whose value is the placeholder for output x of A
RefersTo(item, a, x) ==
    item.v = JStr(Placeholder(<<"nodes", ".">> \o a \o <<".", "output", ".", x>>, <<>>))

\* C7: with A -> B, when A has produced output x and its step is persisted,
\* resolving B's config replaces the placeholder for A's x by that value.
C7_PlaceholderGivesOutput ==
    \A r \in RunIds :
        (/\ exec[r].pc = "running"
         /\ Len(exec[r].finished) = 1
         /\ exec[r].finished[1].next = exec[r].mem.current_node_id
         /\ NodesMapGet(wf.nodes, exec[r].mem.current_node_id) # <<>>)
        => LET a == exec[r].finished[1]
               b == NodesMapGet(wf.nodes, exec[r].mem.current_node_id)[1]
               out == _resolve_inputs(b.config, exec[r].mem.execution_data)
           IN \A i \in DOMAIN b.config : \A x \in {"tx_hash", "result"} :
                (RefersTo(b.config[i], a.node, x) /\ K(x) \in DOMAIN a.output.v)
                  => /\ out.exc = "none"
                     /\ out.config[i].v = a.output.v[K(x)]

----------------------------------------------------------------------------
(* Properties of the expression resolver, checked under SpecResolve *)

\* every key of the path is found, walking down dicts from val
RECURSIVE PathPresent(_, _)
PathPresent(val, keys) ==
    \/ keys = <<>>
    \/ /\ val.t = "dict"
       /\ Head(keys) \in DOMAIN val.v
       /\ PathPresent(val.v[Head(keys)], Tail(keys))

\* C8: resolving a config whose first value is a placeholder for a path that
\* is not present in execution_data (such as nonexistent_node.output.value
\* with empty data) fails with the resolution error (ValueError) that names
\* the raw placeholder and the unresolved path.
C8_UnresolvedPathNamed ==
    \A p \in PathsToX :
        (/\ rs.phase = "done"
         /\ rs.config # <<>>
         /\ rs.config[1].v = JStr(Placeholder(p, <<>>))
         /\ ~PathPresent(rs.data, PathKeyParts(Strip(p))))
        => /\ rs.out.exc = "ValueError"
           /\ rs.out.placeholder = Placeholder(p, <<>>)
           /\ rs.out.path = Strip(p)

\* the whole string is one placeholder: "{{", path characters, "}}"
EntirelyPlaceholder(val) ==
    /\ val.t = "str"
    /\ Len(val.v) >= 5
    /\ SubSeq(val.v, 1, 2) = <<"{", "{">>
    /\ SubSeq(val.v, Len(val.v) - 1, Len(val.v)) = <<"}", "}">>
    /\ \A i \in 3..(Len(val.v) - 2) : InPathClass(val.v[i])

\* C9: _resolve_inputs leaves unchanged every value that is not a string and
\* every string that is not entirely one placeholder (a placeholder followed
\* by other text included), and the resolved config has the keys of the input.
C9_OthersUnchanged ==
    rs.phase = "done" =>
       /\ (\A i \in DOMAIN rs.config : ~EntirelyPlaceholder(rs.config[i].v))
             => rs.out.exc = "none"
       /\ rs.out.exc = "none" =>
             /\ Len(rs.out.config) = Len(rs.config)
             /\ \A i \in DOMAIN rs.config :
                  /\ rs.out.config[i].k = rs.config[i].k
                  /\ ~EntirelyPlaceholder(rs.config[i].v)
                        => rs.out.config[i].v = rs.config[i].v

----------------------------------------------------------------------------
(* Properties of the provider manager, checked under SpecBreaker *)

Cooling(b, t) == b.state = "open" /\ t < b.opened_at + CIRCUIT_BREAKER_RECOVERY_TIMEOUT

\* C10 as stated: once the primary provider has raised on N consecutive
\* calls (N the failure threshold), the breaker is open and the next call is
\* served by the fallback without the primary being invoked.
C10_OpenThenFallback ==
    /\ calls.streak >= CIRCUIT_BREAKER_FAILURE_THRESHOLD => breaker.state = "open"
    /\ (calls.n > 0 /\ calls.pre_streak >= CIRCUIT_BREAKER_FAILURE_THRESHOLD)
          => (~calls.primary_invoked /\ calls.fallback_invoked)

\* C10 amended: once the primary provider has raised on N consecutive calls,
\* the breaker is open, and a next call that arrives before the recovery
\* timeout has passed since the breaker opened goes to the fallback without
\* the primary being invoked.
C10_OpenThenFallbackWhileCooling ==
    /\ calls.streak >= CIRCUIT_BREAKER_FAILURE_THRESHOLD => breaker.state = "open"
    /\ (/\ calls.n > 0
        /\ calls.pre_streak >= CIRCUIT_BREAKER_FAILURE_THRESHOLD
        /\ Cooling(calls.pre_breaker, calls.at))
          => (~calls.primary_invoked /\ calls.fallback_invoked)

C10_Witness ==
    /\ calls.pre_streak = CIRCUIT_BREAKER_FAILURE_THRESHOLD
    /\ calls.n = CIRCUIT_BREAKER_FAILURE_THRESHOLD + 1
    /\ Cooling(calls.pre_breaker, calls.at)
    /\ calls.result = "fallback_ok"
    /\ ~calls.primary_invoked

\* C11: a primary call that fails with NotImplementedError does not increase
\* the breaker's failure count and leaves the breaker closed, however many
\* such calls came before, and the error reaches the caller directly.
C11_NotImplementedNotCounted ==
    (calls.n > 0 /\ calls.primary = "not_implemented") =>
        /\ breaker.fail_counter <= calls.pre_breaker.fail_counter
        /\ breaker.state = "closed"
        /\ calls.result = "primary_not_implemented"
        /\ ~calls.fallback_invoked

\* C12: when the primary and the fallback both fail for one call, the manager
\* raises the composite exception (code TOTAL_SERVICE_FAILURE), and it holds
\* both underlying errors: the primary adapter's and the fallback adapter's.
C12_CompositeCarriesBoth ==
    (/\ calls.n > 0
     /\ calls.primary \in {"error", "not_implemented"}
     /\ calls.fallback = "error")
    => /\ calls.result = "TOTAL_SERVICE_FAILURE"
       /\ calls.carried.primary = PrimaryExc(calls.primary)
       /\ calls.carried.fallback = "FallbackError"

\* C26: whenever the primary adapter fails a call with a failure that
\* counts for the breaker, the call is attempted on the fallback adapter and
\* the caller gets the fallback's result or the composite exception, also
\* while the breaker is closed.
C26_CountedFailureFallsBack ==
    (calls.n > 0 /\ calls.primary = "error") =>
        /\ calls.fallback_invoked
        /\ calls.result \in {"fallback_ok", "TOTAL_SERVICE_FAILURE"}

\* the breaker was open and its recovery timeout had passed when the last
\* call arrived: the call is the trial call of the half-open breaker
Probe ==
    /\ calls.n > 0
    /\ calls.pre_breaker.state = "open"
    /\ ~Cooling(calls.pre_breaker, calls.at)

\* C27: a call that arrives while the breaker is open and cooling does not
\* invoke the primary and is routed to the fallback; the first call after
\* the cooldown invokes the primary; when that call succeeds the breaker is
\* closed, and when it fails with a counted failure the breaker is open
\* again, its cooldown starting at that call.
C27_OpenCoolingProbe ==
    /\ (calls.n > 0 /\ Cooling(calls.pre_breaker, calls.at))
          => (~calls.primary_invoked /\ calls.fallback_invoked)
    /\ Probe =>
          /\ calls.primary_invoked
          /\ calls.primary = "ok" => breaker.state = "closed" /\ breaker.fail_counter = 0
          /\ calls.primary = "error" =>
                /\ breaker.state = "open"
                /\ breaker.opened_at = calls.at
                /\ calls.fallback_invoked

\* a trial call after the cooldown failed and opened the breaker again
C27_Witness ==
    /\ Probe
    /\ calls.primary = "error"
    /\ breaker.state = "open"
    /\ breaker.opened_at = calls.at
    /\ calls.at >= CIRCUIT_BREAKER_RECOVERY_TIMEOUT

----------------------------------------------------------------------------
(* Properties of the end of an execution and of its persistence (Spec) *)

\* a node step raised: the run is over with an error recorded at a node
FailedAtNode(r) ==
    /\ exec[r].pc = "done"
    /\ db[r].result.kind = "error"
    /\ db[r].result.failed_at_node # NoNode

\* C13: when a step of a node raises, the Execution is marked failed, the
\* error and the id of the failing node are recorded, no further node is
\* executed, and execute_for_workflow re-raises the exception to its caller.
C13_FailureRecordedAndReraised ==
    \A r \in RunIds : FailedAtNode(r) =>
        /\ db[r].status = "FAILED"
        /\ db[r].result.error # NoExc
        /\ db[r].result.failed_at_node = db[r].current_node_id
        /\ exec[r].visited # <<>> =>
              db[r].result.failed_at_node = exec[r].visited[Len(exec[r].visited)]
        /\ ~ENABLED NodeStep(r)
        /\ exec[r].outcome = "raised"

\* the traversal loop ended because the cursor became null, no step raised
LoopExhausted(r) ==
    /\ exec[r].pc = "done"
    /\ exec[r].finished # <<>>
    /\ Len(exec[r].finished) = Len(exec[r].visited)
    /\ exec[r].finished[Len(exec[r].finished)].next = NoNode

\* C14: when the loop ends with a null cursor and no exception, the Execution
\* ends COMPLETED with current_node_id null; it does not end FAILED.
C14_ExhaustedLoopCompletes ==
    \A r \in RunIds : LoopExhausted(r) =>
        /\ db[r].status = "COMPLETED"
        /\ db[r].current_node_id = NoNode
        /\ db[r].result.kind # "error"

\* C15: the Execution is persisted when it starts and after every node: the
\* first persisted record has the cursor at the start node, and the record
\* persisted after the i-th completed node has the cursor at the node that
\* follows it and execution_data holding the output of every node completed
\* so far.
C15_PersistedAfterEveryNode ==
    \A r \in RunIds : exec[r].persisted # <<>> =>
        /\ exec[r].persisted[1].current_node_id = StartNodeId(wf.nodes, wf.edges)
        /\ Len(exec[r].persisted) > Len(exec[r].finished)
        /\ \A i \in DOMAIN exec[r].finished :
             /\ exec[r].persisted[i + 1].current_node_id = exec[r].finished[i].next
             /\ \A j \in 1..i :
                  exec[r].finished[j].node
                     \in RecordedNodes(exec[r].persisted[i + 1].execution_data)

----------------------------------------------------------------------------
(* Properties of Workflow.start_node_id, seen where the engine starts (Spec) *)

\* positions of the nodes that are the target of no edge
Untargeted ==
    {i \in DOMAIN wf.nodes : \A j \in DOMAIN wf.edges : wf.edges[j].target # wf.nodes[i].id}

FirstOf(S) == CHOOSE i \in S : \A j \in S : i <= j

\* the entry taken for request r: none when the request was answered without
\* an execution, else the cursor first persisted
EntryOf(r) ==
    IF exec[r].pc = "mock" THEN NoNode ELSE exec[r].persisted[1].current_node_id

\* C16 as stated: start_node_id is the untargeted node when exactly one
\* exists, the first node of the list when none or several exist, and none
\* only for an empty node list.
C16_StartNodeAsStated ==
    \A r \in RunIds : exec[r].pc # "idle" =>
        IF wf.nodes = <<>> THEN EntryOf(r) = NoNode
        ELSE /\ EntryOf(r) # NoNode
             /\ EntryOf(r) = IF Cardinality(Untargeted) = 1
                             THEN wf.nodes[FirstOf(Untargeted)].id
                             ELSE wf.nodes[1].id

\* C16 amended: start_node_id is the id of the first node, in list order,
\* that is the target of no edge (the only such node when there is exactly
\* one, the earliest when there are several), the id of the first node when
\* every node is a target, and none for an empty list; it is also none when
\* the node so selected carries no id.
C16_StartNodeFirstUntargeted ==
    \A r \in RunIds : exec[r].pc # "idle" =>
        IF wf.nodes = <<>> THEN EntryOf(r) = NoNode
        ELSE EntryOf(r) = IF Untargeted # {}
                          THEN wf.nodes[FirstOf(Untargeted)].id
                          ELSE wf.nodes[1].id

C16_Witness ==
    \E r \in RunIds :
        /\ exec[r].pc = "running"
        /\ Cardinality(Untargeted) = 2
        /\ FirstOf(Untargeted) = 2
        /\ EntryOf(r) = N2

----------------------------------------------------------------------------
(* Properties of the grant lookup, seen in the calls of the engine (Spec) *)

\* the grant lookups made so far: [op, node, target, value, grant]
Lookups ==
    {e \in UNION {Range(exec[r].events) : r \in RunIds} : e.op = "grant_lookup"}

DeclaresPerTx(g) ==
    /\ g.has_spend_limits
    /\ g.spend_limits.t = "dict"
    /\ MAX_SPEND_PER_TX \in DOMAIN g.spend_limits.v

\* C17: a grant returned by find_valid_grant_for_action for (user, target,
\* value) belongs to the user, is unexpired (now < expires_at), has target as
\* an element of its allowed targets, and, when it declares max_spend_per_tx,
\* value <= max_spend_per_tx.
C17_ReturnedGrantPermits ==
    \A e \in Lookups : e.grant # NoGrant =>
        /\ grants[e.grant].user_id = wf.user_id
        /\ now < grants[e.grant].expires_at
        /\ e.target \in Range(grants[e.grant].allowed_targets)
        /\ DeclaresPerTx(grants[e.grant])
              => e.value <= grants[e.grant].spend_limits.v[MAX_SPEND_PER_TX].v

\* the spend-limit check as the specification words it
WithinDeclaredLimit(g, value) ==
    DeclaresPerTx(g) => value <= g.spend_limits.v[MAX_SPEND_PER_TX].v

\* spend_limits is absent or a dict whose max_spend_per_tx, if any, is a number
WellFormedLimits(g) ==
    g.has_spend_limits =>
        /\ g.spend_limits.t = "dict"
        /\ DeclaresPerTx(g) => g.spend_limits.v[MAX_SPEND_PER_TX].t = "int"

\* the candidates of a lookup: the rows its query returns, in order
CandidatesOf(e) == GrantCandidates(grants, wf.user_id, e.target, now)

PassingOf(e) ==
    {i \in DOMAIN CandidatesOf(e) : WithinDeclaredLimit(CandidatesOf(e)[i], e.value)}

----------------------------------------------------------------------------
(* Properties of the trigger checks, checked under SpecMonitor *)

\* a check in which a poller ran and returned (fired, state)
PollerReturned == mon.last.path # "none" /\ mon.last.checker # "none"

\* C19: after every trigger check of a polled workflow the stored row holds
\* the state the poller returned, whether the check fired or not: in the
\* workflow's state after a check of the trigger evaluator, in its
\* trigger_config after a check of the monitoring cycle.
C19_ReturnedStatePersisted ==
    PollerReturned =>
        /\ mon.last.path = "evaluator" => mon.row.state = mon.last.returned
        /\ mon.last.path = "monitor" => mon.row.trigger_config = mon.last.returned

UserKeys(trigger_config) == (DOMAIN trigger_config.v) \ {K("_checker_state")}

\* C20: a monitoring cycle leaves every user-declared key of trigger_config
\* with its value and adds none, for every checker and every outcome; only
\* the entry under the reserved key _checker_state may differ.
C20_UserKeysPreserved ==
    mon.last.path = "monitor" =>
        /\ UserKeys(mon.row.trigger_config) = UserKeys(mon.last.before.trigger_config)
        /\ \A k \in UserKeys(mon.last.before.trigger_config) :
               mon.row.trigger_config.v[k] = mon.last.before.trigger_config.v[k]

----------------------------------------------------------------------------
(* Properties of the pollers, checked under SpecPoll *)

\* two polls in a row saw the same source, and the first fired
RepeatedPoll ==
    /\ mon.prev.path = "poll" /\ mon.last.path = "poll"
    /\ mon.prev.fired
    /\ mon.last.env = mon.prev.env

\* C21: once a poll has fired and the state it returned is stored, the next
\* poll of the unchanged source does not fire, for the RSS, EVM and
\* Chainlink pollers.
C21_NoSecondFiring == RepeatedPoll => ~mon.last.fired

\* the workflow starts with the condition n1 (price_feed:X > 10) whose one
\* edge is n1 -> n2 labelled on_true, and run r has evaluated n1 to true
ConditionHeldAtN1(r) ==
    /\ wf.nodes # <<>>
    /\ wf.nodes[1] = DefaultNode(N1, "condition")
    /\ wf.edges = <<Edge(N1, N2, "on_true")>>
    /\ exec[r].finished # <<>>
    /\ exec[r].finished[1].node = N1
    /\ ResultOf(exec[r].finished[1])

NodeIds == {wf.nodes[i].id : i \in DOMAIN wf.nodes}

\* C25: with the condition n1 (price_feed:X > 10), the edge n1 -> n2
\* labelled on_true and the feed at 15, the condition is true; the cursor
\* moves to n2 when the workflow has a node n2, and when it has none the
\* Execution ends COMPLETED with n1's output recording result = true.
C25_ConditionTrueThenN2OrCompleted ==
    \A r \in RunIds : ConditionHeldAtN1(r) =>
        /\ N2 \in NodeIds => exec[r].finished[1].next = N2
        /\ (N2 \notin NodeIds /\ exec[r].pc = "done") =>
              /\ db[r].status = "COMPLETED"
              /\ N1 \in RecordedNodes(db[r].execution_data)

\* C28: the engine calls no provider execute operation with a quote whose
\* expires_at has passed.
C28_NoExecuteWithExpiredQuote ==
    \A r \in RunIds : \A i \in DOMAIN exec[r].events :
        exec[r].events[i].op \in ExecuteOps => ~exec[r].events[i].expired

\* the persisted WorkflowExecution of request r is COMPLETED or FAILED
Terminal(r) == db[r].exists /\ db[r].status \in {"COMPLETED", "FAILED"}

\* C30: once the persisted WorkflowExecution of a request is COMPLETED or
\* FAILED, no step of the engine, for this request or another, changes its
\* status, cursor, execution_data or result.
C30_TerminalImmutable ==
    [][\A r \in RunIds : Terminal(r) =>
          /\ db'[r].status = db[r].status
          /\ db'[r].current_node_id = db[r].current_node_id
          /\ db'[r].execution_data = db[r].execution_data
          /\ db'[r].result = db[r].result]_vars

\* both requests for the workflow have ended: the one that ended last took
\* its steps while the other's WorkflowExecution was already terminal
C30_Witness ==
    /\ runs = {1, 2}
    /\ \A r \in RunIds : exec[r].pc = "done" /\ Terminal(r)
    /\ \E r \in RunIds : exec[r].finished # <<>>

----------------------------------------------------------------------------
(* Properties of the dispatch paths, checked under SpecMonitor *)

\* a trigger path started a run of the workflow
RunDispatched == mon.last.path \in {"evaluator", "monitor"} /\ mon.last.fired

\* C22: every run a dispatch path starts (the pending sweep with its
\* execution task, the monitoring cycle) has exactly one WorkflowExecution
\* row: as many rows exist as runs were triggered.
C22_OneExecutionPerRun == mon.jobs.executions = mon.jobs.triggered

\* the last check was made by the pending sweep and handed the workflow to
\* the execution task
SweepEnqueued == mon.last.path = "evaluator" /\ mon.last.fired

\* the workflow the last check read may not be triggered
Untriggerable(w) ==
    \/ ~w.is_active
    \/ w.current_state \in {"triggered", "executing", "waiting_signature"}
    \/ w.current_state \in {"failed", "cancelled"}

\* C24: a workflow the pending sweep enqueues was active, PENDING and due
\* (next_check_at null or not after the sweep's clock) when the sweep read
\* it; check_workflow returns false for every
\* workflow that is inactive, running, FAILED or CANCELLED; and one sweep
\* adds at most one execution task for the workflow.
C24_SweepEnqueuesEligible ==
    /\ [](/\ SweepEnqueued =>
               /\ mon.last.before.is_active
               /\ mon.last.before.current_state = "pending"
               /\ \/ mon.last.before.next_check_at = JNone
                  \/ mon.last.before.next_check_at.v <= now
          /\ (mon.last.path \in {"evaluator", "check_workflow"}
                /\ Untriggerable(mon.last.before)) => ~mon.last.fired)
    /\ [][mon'.jobs.queued <= mon.jobs.queued + 1]_vars

\* the sweep has enqueued a workflow whose next_check_at had passed
C24_Witness ==
    /\ SweepEnqueued
    /\ mon.last.before.next_check_at = JInt(50)
    /\ mon.jobs.queued = 1

\* the last attempt of the execution task ended with execute_action raising
ActionFailed == mon.jobs.outcome \in {"grant_violation", "error"}

\* C29: when the action fails inside the task execute_workflow_action, the
\* workflow is FAILED with last_error_message recording the error, and the
\* task is retried, at most max_retries times.
C29_FailedActionRetried ==
    ActionFailed =>
        /\ mon.row.current_state = "failed"
        /\ mon.row.last_error_message = JStr(<<mon.jobs.outcome>>)
        /\ mon.jobs.retried
        /\ mon.jobs.retries <= max_retries

----------------------------------------------------------------------------
(* Manual triggers of a deactivated workflow, checked under Spec *)

\* C23: a workflow whose is_active is false has no run started for it: no
\* WorkflowExecution row of the workflow exists.
C23_InactiveNeverStarted == ~wf.is_active => \A r \in RunIds : ~db[r].exists

----------------------------------------------------------------------------
(* Properties of the traversal's end and of node types, checked under Spec *)

\* the finished step f left a node the graph gives no way out of: a condition
\* with no edge labelled with its result, another node with no outgoing edge
ValidTerminal(f) ==
    IF TypeOfNode(f.node) = "condition"
    THEN TargetOfFirst(f.node, IF ResultOf(f) THEN "on_true" ELSE "on_false") = {}
    ELSE OutgoingEdges(wf.edges, f.node) = <<>>

LastFinished(r) == exec[r].finished[Len(exec[r].finished)]

\* C31: a run whose last node succeeded and is a valid terminal (no outgoing
\* edge, or a condition with no edge labelled with its result) ends with
\* status COMPLETED, not FAILED, and executes no further node.
C31_TerminalNodeCompletes ==
    \A r \in RunIds :
        (/\ exec[r].pc = "done"
         /\ exec[r].finished # <<>>
         /\ Len(exec[r].finished) = Len(exec[r].visited)
         /\ ValidTerminal(LastFinished(r)))
        => /\ db[r].status = "COMPLETED"
           /\ exec[r].visited[Len(exec[r].visited)] = LastFinished(r).node

\* C32: after a transactional node succeeds the cursor is the target of its
\* first outgoing edge labelled default or carrying no label, and null when
\* it has none; it is never moved along an edge labelled on_true or
\* on_false.
C32_TransactionalFollowsDefault ==
    \A r \in RunIds : \A i \in DOMAIN exec[r].finished :
        TypeOfNode(exec[r].finished[i].node) \in TransactionalTypes =>
            IF FirstEdge(exec[r].finished[i].node, {"default", ""}) = {}
            THEN exec[r].finished[i].next = NoNode
            ELSE {exec[r].finished[i].next} =
                    {e.target : e \in FirstEdge(exec[r].finished[i].node, {"default", ""})}

\* a bridge node with an on_true edge to one node and an unlabelled edge to
\* another has succeeded, and the cursor followed the unlabelled edge
C32_Witness ==
    \E r \in RunIds : \E i \in DOMAIN exec[r].finished :
        /\ TypeOfNode(exec[r].finished[i].node) = "bridge"
        /\ FirstEdge(exec[r].finished[i].node, {"on_true"}) # {}
        /\ \E e \in FirstEdge(exec[r].finished[i].node, {""}) :
              /\ e.target = exec[r].finished[i].next
              /\ e.target \notin TargetOfFirst(exec[r].finished[i].node, "on_true")

----------------------------------------------------------------------------
(* The spend-limit check used directly: one grant of the user, for the      *)
(* requested contract and not expired, whose permissions take every shape   *)
(* the JSON column admits, and a sequence of transactions checked against   *)
(* it.                                                                      *)

MAX_SPEND_PER_DAY == <<"max_spend_per_day">>

MaxTx == 3

TxValues == {5, 50, 200}

LimitValues == {JInt(10), JInt(100), JStr(<<"10">>)}

\* permissions["spend_limits"]: a dict with either key, both or none, or a
\* value that is not a dict
LimitShapes ==
    {EmptyDict, JNone, JStr(<<"none">>), JInt(100)}
    \cup {Dict1(MAX_SPEND_PER_TX, a) : a \in LimitValues}
    \cup {Dict1(MAX_SPEND_PER_DAY, b) : b \in LimitValues}
    \cup {Dict2(MAX_SPEND_PER_TX, a, MAX_SPEND_PER_DAY, b) :
            a \in LimitValues, b \in LimitValues \cup {JInt(60)}}

LimitGrants ==
    {[id |-> 1, user_id |-> "u1", expires_at |-> 1000, allowed_targets |-> <<ASSET_A>>,
      has_spend_limits |-> FALSE, spend_limits |-> JNone]}
    \cup
    {[id |-> 1, user_id |-> "u1", expires_at |-> 1000, allowed_targets |-> <<ASSET_A>>,
      has_spend_limits |-> TRUE, spend_limits |-> s] : s \in LimitShapes}

\* one transaction of the history: its value, what _check_spend_limits
\* answered for the grant and what find_valid_grant_for_action returned
CheckedTx(g, value) ==
    [value |-> value,
     check |-> _check_spend_limits(g, value),
     found |-> find_valid_grant_for_action(<<g>>, "u1", ASSET_A, value, 100)]

InitLimits ==
    /\ lim \in [phase : {"on"}, grant : LimitGrants, txs : {<<>>}]
    /\ act = NoAct
    /\ race = NoRace
    /\ retry = NoRetry
    /\ mon = NoMonitor
    /\ wf = [user_id |-> "u1", nodes |-> <<>>, edges |-> <<>>, is_active |-> TRUE]
    /\ grants = <<>>
    /\ runs = {}
    /\ exec = [r \in RunIds |-> IdleRun]
    /\ db = [r \in RunIds |-> NoRow]
    /\ breaker = BreakerClosed
    /\ now = 100
    /\ calls = NoCalls
    /\ rs = NoResolve

\* a transaction asks for a grant: find_valid_grant_for_action
FindGrant ==
    /\ lim.phase = "on"
    /\ Len(lim.txs) < MaxTx
    /\ \E value \in TxValues :
         lim' = [lim EXCEPT !.txs = Append(@, CheckedTx(lim.grant, value))]
    /\ UNCHANGED <<wf, grants, runs, exec, db, breaker, now, calls, rs, mon, act, race, retry>>

NextLimits == FindGrant

SpecLimits == InitLimits /\ [][NextLimits]_vars

HasLimit(g, key) ==
    /\ g.has_spend_limits
    /\ g.spend_limits.t = "dict"
    /\ key \in DOMAIN g.spend_limits.v
    /\ g.spend_limits.v[key].t = "int"

\* the grant with max_spend_per_day taken out of its spend_limits
WithoutDaily(g) ==
    IF g.has_spend_limits /\ g.spend_limits.t = "dict"
    THEN [g EXCEPT !.spend_limits =
            JDict([k \in (DOMAIN g.spend_limits.v) \ {MAX_SPEND_PER_DAY} |-> g.spend_limits.v[k]])]
    ELSE g

RECURSIVE SumOfValues(_)
SumOfValues(txs) == IF txs = <<>> THEN 0 ELSE Head(txs).value + SumOfValues(Tail(txs))

\* C33: the daily limit is not enforced: what the spend-limit check answers
\* for a transaction is what it answers for the same grant without its
\* max_spend_per_day and whatever was checked before, so with a numeric
\* max_spend_per_tx every transaction within it is permitted, whatever the
\* sum of the transactions.
C33_DailyLimitNotEnforced ==
    \A i \in DOMAIN lim.txs :
        /\ lim.txs[i].check = _check_spend_limits(WithoutDaily(lim.grant), lim.txs[i].value)
        /\ (HasLimit(lim.grant, MAX_SPEND_PER_TX)
            /\ lim.txs[i].value <= lim.grant.spend_limits.v[MAX_SPEND_PER_TX].v)
           => /\ lim.txs[i].check = "true"
              /\ lim.txs[i].found = [exc |-> "none", grant |-> lim.grant.id]

\* three transactions, each within max_spend_per_tx, all granted although
\* their sum is above the declared max_spend_per_day
C33_Witness ==
    /\ Len(lim.txs) = MaxTx
    /\ HasLimit(lim.grant, MAX_SPEND_PER_TX)
    /\ HasLimit(lim.grant, MAX_SPEND_PER_DAY)
    /\ \A i \in DOMAIN lim.txs :
         /\ lim.txs[i].value <= lim.grant.spend_limits.v[MAX_SPEND_PER_TX].v
         /\ lim.txs[i].found.grant = lim.grant.id
    /\ SumOfValues(lim.txs) > lim.grant.spend_limits.v[MAX_SPEND_PER_DAY].v

\* spend_limits that is not a dict, or a max_spend_per_tx that is not a number
MalformedLimits(g) ==
    /\ g.has_spend_limits
    /\ \/ g.spend_limits.t # "dict"
       \/ /\ MAX_SPEND_PER_TX \in DOMAIN g.spend_limits.v
          /\ g.spend_limits.v[MAX_SPEND_PER_TX].t \notin {"int", "none"}

\* C34: whenever reading the grant's permissions fails in the spend-limit
\* check (spend_limits or max_spend_per_tx malformed), the check answers
\* False and the lookup returns without selecting the grant.
C34_MalformedLimitsDenied ==
    \A i \in DOMAIN lim.txs :
        MalformedLimits(lim.grant) =>
            /\ lim.txs[i].check = "false"
            /\ lim.txs[i].found = [exc |-> "none", grant |-> NoGrant]

----------------------------------------------------------------------------
(* ActionExecutionService.execute_action used directly: a workflow with its *)
(* action and execution_grant, the market's answer to get_price and how the *)
(* executor of the action ends.                                             *)

JList(items) == [t |-> "list", v |-> items]

Passed == [exc |-> "none", message |-> <<>>]

Refused(exc, message) == [exc |-> exc, message |-> message]

_check_allowed_actions(grant, action_type) ==
    IF DictGet(grant, K("allowed_actions")) = JNone THEN Passed
    ELSE IF DictGet(grant, K("allowed_actions")).t # "list"
    THEN Refused("GrantViolationError", <<"Grant format error:", "allowed_actions">>)
    ELSE IF action_type \notin Range(DictGet(grant, K("allowed_actions")).v)
    THEN Refused("GrantViolationError", <<"Action", action_type, "is not permitted">>)
    ELSE Passed

\* float(x) returns for a number and for the text of one
IsFloatable(val) == val.t \in {"int", "numstr"}

\* the part of _check_spending_limit after the limit was parsed
ValueWithinLimit(limit_usd, w, market) ==
    IF w.action_type = "swap"
    THEN IF \/ ~Truthy(DictGet(w.action_config, K("from_asset")))
            \/ ~Truthy(DictGet(w.action_config, K("amount")))
         THEN Passed
         ELSE IF \/ market.kind # "ok"
                 \/ ~IsFloatable(DictGet(w.action_config, K("amount")))
         THEN Passed
         ELSE IF market.price * DictGet(w.action_config, K("amount")).v > limit_usd
         THEN Refused("GrantViolationError", <<"Action value", "exceeds the grant limit">>)
         ELSE Passed
    ELSE IF 0 > limit_usd
    THEN Refused("GrantViolationError", <<"Action value", "exceeds the grant limit">>)
    ELSE Passed

_check_spending_limit(grant, w, market) ==
    IF DictGet(grant, K("max_spend_per_execution_usd")) = JNone THEN Passed
    ELSE IF ~IsFloatable(DictGet(grant, K("max_spend_per_execution_usd")))
    THEN Refused("GrantViolationError",
                <<"Grant format error:", "max_spend_per_execution_usd">>)
    ELSE ValueWithinLimit(DictGet(grant, K("max_spend_per_execution_usd")).v, w, market)

check_grant(w, market) ==
    IF ~Truthy(w.execution_grant) THEN Passed
    ELSE IF w.execution_grant.t # "dict" THEN Refused("AttributeError", <<"get">>)
    ELSE IF _check_allowed_actions(w.execution_grant, w.action_type).exc # "none"
    THEN _check_allowed_actions(w.execution_grant, w.action_type)
    ELSE _check_spending_limit(w.execution_grant, w, market)

Executors == {"swap", "bridge", "notification"}

\* the call after check_grant returned: [row, invoked, raised]
Dispatch(w, outcome) ==
    IF w.action_type \notin Executors
    THEN [row |-> [w EXCEPT !.current_state = "failed"], invoked |-> {},
          raised |-> "NotImplementedError"]
    ELSE IF outcome = "ok"
    THEN [row |-> w, invoked |-> {w.action_type}, raised |-> "none"]
    ELSE [row |-> [w EXCEPT !.current_state = "failed"], invoked |-> {w.action_type},
          raised |-> "Exception"]

\* execute_action dispatching without asking the grant service
execute_action_Unchecked(w, market, outcome) == Dispatch(w, outcome)

execute_action(w, market, outcome) ==
    IF check_grant(w, market).exc = "GrantViolationError"
    THEN [row |-> [w EXCEPT !.current_state = "failed",
                            !.last_error_message =
                                JStr(<<"Permission Denied:">> \o check_grant(w, market).message)],
          invoked |-> {}, raised |-> "GrantViolationError"]
    ELSE IF check_grant(w, market).exc # "none"
    THEN [row |-> [w EXCEPT !.current_state = "failed"], invoked |-> {},
          raised |-> check_grant(w, market).exc]
    ELSE Dispatch(w, outcome)

ExecutionGrants ==
    {JNone, EmptyDict, JStr(<<"all">>),
     Dict1(K("allowed_actions"), JStr(<<"swap">>))}
    \cup {Dict1(K("allowed_actions"), JList(l)) : l \in {<<"swap">>, <<"bridge", "notification">>}}
    \cup {Dict1(K("max_spend_per_execution_usd"), m) :
            m \in {JInt(100), JNumStr(20), JStr(<<"much">>), JInt(-1)}}
    \cup {Dict2(K("allowed_actions"), JList(<<"swap", "bridge">>),
                K("max_spend_per_execution_usd"), m) : m \in {JInt(100), JNumStr(20)}}

ActionConfigs ==
    {EmptyDict, Dict1(K("from_asset"), JStr(<<"AVAX">>))}
    \cup {Dict2(K("from_asset"), JStr(<<"AVAX">>), K("amount"), a) :
            a \in {JInt(1), JInt(10), JStr(<<"all">>)}}

ActionWorkflows ==
    [action_type : {"swap", "bridge", "notification", "webhook"},
     action_config : ActionConfigs,
     execution_grant : ExecutionGrants,
     current_state : {"executing"},
     last_error_message : {JNone}]

NoOutcome == [row |-> 0, invoked |-> {}, raised |-> "none"]

InitAction ==
    /\ act \in [phase : {"ready"}, row : ActionWorkflows,
                market : {[kind |-> k, price |-> p] : k \in {"ok", "error"}, p \in {5, 15}},
                check : {Passed}, out : {NoOutcome}]
    /\ lim = NoLim
    /\ race = NoRace
    /\ retry = NoRetry
    /\ mon = NoMonitor
    /\ wf = [user_id |-> "u1", nodes |-> <<>>, edges |-> <<>>, is_active |-> TRUE]
    /\ grants = <<>>
    /\ runs = {}
    /\ exec = [r \in RunIds |-> IdleRun]
    /\ db = [r \in RunIds |-> NoRow]
    /\ breaker = BreakerClosed
    /\ now = 100
    /\ calls = NoCalls
    /\ rs = NoResolve

\* one call of execute_action; the row is the session's workflow object
ExecuteAction ==
    /\ act.phase = "ready"
    /\ \E outcome \in {"ok", "error"} :
         act' = [act EXCEPT !.phase = "done",
                            !.check = check_grant(act.row, act.market),
                            !.out = execute_action(act.row, act.market, outcome),
                            !.row = execute_action(act.row, act.market, outcome).row]
    /\ UNCHANGED <<wf, grants, runs, exec, db, breaker, now, calls, rs, mon, lim, race, retry>>

NextAction == ExecuteAction

SpecAction == InitAction /\ [][NextAction]_vars

\* the action type is not in a declared allowed_actions list
ActionNotAllowed(w) ==
    /\ w.execution_grant.t = "dict"
    /\ DictGet(w.execution_grant, K("allowed_actions")).t = "list"
    /\ w.action_type \notin Range(DictGet(w.execution_grant, K("allowed_actions")).v)

\* the estimated USD value of a swap is above a declared numeric limit
ValueAboveLimit(w, market) ==
    /\ w.execution_grant.t = "dict"
    /\ ~ActionNotAllowed(w)
    /\ DictGet(w.execution_grant, K("allowed_actions")).t \in {"none", "list"}
    /\ IsFloatable(DictGet(w.execution_grant, K("max_spend_per_execution_usd")))
    /\ w.action_type = "swap"
    /\ market.kind = "ok"
    /\ Truthy(DictGet(w.action_config, K("from_asset")))
    /\ DictGet(w.action_config, K("amount")).t = "int"
    /\ market.price * DictGet(w.action_config, K("amount")).v
         > DictGet(w.execution_grant, K("max_spend_per_execution_usd")).v

\* C35: when check_grant raises GrantViolationError (as it does when the
\* action type is not in allowed_actions or the estimated USD value is
\* above max_spend_per_execution_usd), execute_action invokes no swap,
\* bridge or notification executor, sets the workflow FAILED with
\* last_error_message starting with "Permission Denied:" and re-raises.
C35_GrantViolationStopsAction ==
    act.phase = "done" =>
        /\ (ActionNotAllowed(act.row) \/ ValueAboveLimit(act.row, act.market))
             => act.check.exc = "GrantViolationError"
        /\ act.check.exc = "GrantViolationError"
             => /\ act.out.invoked = {}
                /\ act.row.current_state = "failed"
                /\ act.row.last_error_message.t = "str"
                /\ Head(act.row.last_error_message.v) = "Permission Denied:"
                /\ act.out.raised = "GrantViolationError"

\* a swap above the limit of its grant, refused
C35_Witness ==
    /\ act.phase = "done"
    /\ ValueAboveLimit(act.row, act.market)
    /\ act.out.raised = "GrantViolationError"
    /\ act.out.invoked = {}

----------------------------------------------------------------------------
(* Properties of the execution task's outcome, checked under SpecMonitor *)

IntervalTrigger(w) ==
    /\ w.trigger_type = "time_trigger"
    /\ IsText(DictGet(w.trigger_config, K("schedule_type")), <<"interval">>)

\* the last attempt of the execution task ran execute_action
TaskRan == mon.jobs.outcome \in {"ok", "grant_violation", "error"}

----------------------------------------------------------------------------
(* The pending sweep and the execution task it enqueues, step by step.  The *)
(* sweep and the task hold a session each: a session reads committed rows,  *)
(* keeps its changes in its own objects and writes them at a flush; a row   *)
(* written by a flush stays locked until its session commits, and race.db   *)
(* is the row as committed.  The task is sent to the broker by .delay at    *)
(* once, not at the sweep's commit.                                         *)

RaceWorkflows ==
    {w \in SweepWorkflows :
        PendingQuery(w, 100) /\ w.trigger_type \in {"price_trigger", "time_trigger"}}

RaceEnvs == {[DefaultEnv EXCEPT !.market = [kind |-> "ok", price |-> p]] : p \in {5, 15}}

InitRace ==
    /\ race \in [phase : {"on"}, db : RaceWorkflows,
                 sweep : [pc : {"idle"}, row : {NoPolledRow}],
                 task : [pc : {"idle"}, row : {NoPolledRow}, outcome : {"none"}],
                 queue : {0}, locked : {FALSE}]
    /\ lim = NoLim
    /\ act = NoAct
    /\ retry = NoRetry
    /\ mon = NoMonitor
    /\ wf = [user_id |-> "u1", nodes |-> <<>>, edges |-> <<>>, is_active |-> TRUE]
    /\ grants = <<>>
    /\ runs = {}
    /\ exec = [r \in RunIds |-> IdleRun]
    /\ db = [r \in RunIds |-> NoRow]
    /\ breaker = BreakerClosed
    /\ now = 100
    /\ calls = NoCalls
    /\ rs = NoResolve

RaceUnchanged ==
    UNCHANGED <<wf, grants, runs, exec, db, breaker, now, calls, rs, mon, lim, act, retry>>

\* the sweep's statement returns the workflow
SweepSelect ==
    /\ race.phase = "on"
    /\ race.sweep.pc = "idle"
    /\ PendingQuery(race.db, now)
    /\ race' = [race EXCEPT !.sweep = [pc |-> "selected", row |-> race.db]]
    /\ RaceUnchanged

\* check_workflow; when it reports a trigger the sweep's object is set to
\* TRIGGERED and the task is enqueued
SweepCheck ==
    /\ race.phase = "on"
    /\ race.sweep.pc = "selected"
    /\ \E env \in RaceEnvs :
         race' = IF check_workflow(race.sweep.row, env, now).fired
                 THEN [race EXCEPT !.sweep.pc = "triggered",
                                   !.sweep.row.current_state = "triggered",
                                   !.queue = @ + 1]
                 ELSE [race EXCEPT !.sweep.pc = "checked"]
    /\ RaceUnchanged

\* a later statement on the sweep's session flushes the change before the
\* commit
SweepFlush ==
    /\ race.phase = "on"
    /\ race.sweep.pc = "triggered"
    /\ ~race.locked
    /\ race' = [race EXCEPT !.sweep.pc = "flushed", !.locked = TRUE]
    /\ RaceUnchanged

\* session.commit() at the end of the sweep
SweepCommit ==
    /\ race.phase = "on"
    /\ race.sweep.pc \in {"checked", "triggered", "flushed"}
    /\ race' = [race EXCEPT !.sweep.pc = "done", !.locked = FALSE,
                            !.db.current_state =
                                IF race.sweep.pc = "checked" THEN @ ELSE "triggered"]
    /\ RaceUnchanged

\* the task fetches the workflow: the row as last committed.  A flushed,
\* uncommitted TRIGGERED of the sweep is not visible to it.
TaskFetch ==
    /\ race.phase = "on"
    /\ race.queue > 0
    /\ race.task.pc = "idle"
    /\ race' = [race EXCEPT
                  !.queue = @ - 1,
                  !.task = [pc |-> "fetched", outcome |-> "none",
                            row |-> race.db]]
    /\ RaceUnchanged

\* workflow.current_state = EXECUTING; session.commit()
TaskSetExecuting ==
    /\ race.phase = "on"
    /\ race.task.pc = "fetched"
    /\ ~race.locked
    /\ race' = [race EXCEPT !.task.pc = "executing",
                            !.task.row.current_state = "executing",
                            !.db.current_state = "executing"]
    /\ RaceUnchanged

\* execute_action and what follows it up to the last commit
TaskRun ==
    /\ race.phase = "on"
    /\ race.task.pc = "executing"
    /\ \E outcome \in TaskOutcomes \ {"no_session"} :
         race' = [race EXCEPT
                    !.task = [pc |-> "ran", outcome |-> outcome,
                              row |-> _execute_workflow_action_async(race.task.row, outcome, now)]]
    /\ RaceUnchanged

\* session.commit() in the finally block: the attributes the task changed
TaskCommit ==
    /\ race.phase = "on"
    /\ race.task.pc = "ran"
    /\ ~race.locked
    /\ race' = [race EXCEPT
                  !.task.pc = "done",
                  !.db = [@ EXCEPT !.current_state = race.task.row.current_state,
                                   !.next_check_at = race.task.row.next_check_at,
                                   !.last_error_message = race.task.row.last_error_message]]
    /\ RaceUnchanged

NextRace ==
    \/ SweepSelect \/ SweepCheck \/ SweepFlush \/ SweepCommit
    \/ TaskFetch \/ TaskSetExecuting \/ TaskRun \/ TaskCommit

SpecRace == InitRace /\ [][NextRace]_vars

BothFinished == race.phase = "on" /\ race.sweep.pc = "done" /\ race.task.pc = "done"

\* C37: in every interleaving of the pending sweep with the task it
\* enqueued, once both have finished the persisted state of the workflow
\* is the task's outcome (COMPLETED, FAILED or PENDING), never TRIGGERED or
\* EXECUTING.
C37_TaskOutcomePersists ==
    BothFinished =>
        /\ race.db.current_state = race.task.row.current_state
        /\ race.db.current_state \in {"completed", "failed", "pending"}

----------------------------------------------------------------------------
(* Workflow.update_state and Workflow.schedule_retry called in any order on *)
(* a workflow whose runs all fail: no run reaches COMPLETED.                *)

MaxRetryCalls == 6

\* Workflow.update_state(new_state, error_message)
update_state(w, new_state, error_message) ==
    [w EXCEPT !.current_state = new_state,
              !.last_error_message = IF Truthy(error_message) THEN error_message ELSE @,
              !.failure_count = IF Truthy(error_message) THEN @ + 1 ELSE @,
              !.current_retry_count = IF new_state # "failed" THEN 0 ELSE @]

\* Workflow.can_retry
can_retry(w) == w.current_state = "failed" /\ w.current_retry_count < w.max_retries

\* Workflow.schedule_retry
schedule_retry(w) ==
    IF can_retry(w)
    THEN [w EXCEPT !.current_retry_count = @ + 1, !.current_state = "pending"]
    ELSE w

RetryWorkflows ==
    [current_state : {"pending", "triggered", "failed"},
     current_retry_count : {0},
     max_retries : {1, 2, 3},
     failure_count : {0},
     last_error_message : {JNone}]

InitRetry ==
    /\ retry \in [phase : {"on"}, row : RetryWorkflows, n : {0}, effects : {0}]
    /\ lim = NoLim
    /\ act = NoAct
    /\ race = NoRace
    /\ mon = NoMonitor
    /\ wf = [user_id |-> "u1", nodes |-> <<>>, edges |-> <<>>, is_active |-> TRUE]
    /\ grants = <<>>
    /\ runs = {}
    /\ exec = [r \in RunIds |-> IdleRun]
    /\ db = [r \in RunIds |-> NoRow]
    /\ breaker = BreakerClosed
    /\ now = 100
    /\ calls = NoCalls
    /\ rs = NoResolve

\* a step of a failing run: update_state(TRIGGERED), update_state(EXECUTING)
\* or update_state(FAILED, message)
UpdateState ==
    /\ retry.phase = "on"
    /\ retry.n < MaxRetryCalls
    /\ \E new_state \in {"triggered", "executing", "failed"} :
         retry' = [retry EXCEPT
                     !.n = @ + 1,
                     !.row = update_state(@, new_state,
                                          IF new_state = "failed"
                                          THEN JStr(<<"error">>) ELSE JNone)]
    /\ UNCHANGED <<wf, grants, runs, exec, db, breaker, now, calls, rs, mon, lim, act, race>>

\* schedule_retry(); effects counts the calls that changed the row
ScheduleRetry ==
    /\ retry.phase = "on"
    /\ retry.n < MaxRetryCalls
    /\ retry' = [retry EXCEPT
                   !.n = @ + 1,
                   !.row = schedule_retry(@),
                   !.effects = IF can_retry(retry.row) THEN @ + 1 ELSE @]
    /\ UNCHANGED <<wf, grants, runs, exec, db, breaker, now, calls, rs, mon, lim, act, race>>

NextRetry == UpdateState \/ ScheduleRetry

SpecRetry == InitRetry /\ [][NextRetry]_vars

\* C38: for a workflow whose every run fails, schedule_retry takes effect at
\* most max_retries times in total in any sequence of update_state and
\* schedule_retry calls, and current_retry_count never exceeds max_retries.
C38_RetriesBounded ==
    retry.phase = "on" =>
        /\ retry.effects <= retry.row.max_retries
        /\ retry.row.current_retry_count <= retry.row.max_retries

----------------------------------------------------------------------------
(* Properties of node types and of repeated nodes, checked under Spec *)

UnknownTypeNode(node_id) ==
    \E n \in Range(wf.nodes) :
        n.id = node_id /\ n.type \notin {"condition"} \cup TransactionalTypes

\* C39: a node whose type is neither condition nor swap, bridge, stake or
\* supply_asset ends the run there: the execution is FAILED with
\* failed_at_node its id, no provider quote or execute call and no grant
\* lookup was made for it, and its step is not completed (it is not passed
\* over).
C39_UnknownTypeFails ==
    \A r \in RunIds : \A i \in DOMAIN exec[r].visited :
        UnknownTypeNode(exec[r].visited[i]) =>
            /\ i = Len(exec[r].visited)
            /\ exec[r].visited[i] \notin FinishedNodes(r)
            /\ exec[r].pc = "done"
            /\ db[r].status = "FAILED"
            /\ db[r].result.failed_at_node = exec[r].visited[i]
            /\ \A e \in Range(exec[r].events) : e.node # exec[r].visited[i]

\* a notification node reached after a condition that held
C39_Witness ==
    \E r \in RunIds :
        /\ Len(exec[r].visited) = 2
        /\ TypeOfNode(exec[r].visited[1]) = "condition"
        /\ TypeOfNode(exec[r].visited[2]) = "notification"
        /\ db[r].status = "FAILED"
        /\ db[r].result.failed_at_node = exec[r].visited[2]


\* C40: within one Execution no node is executed more than once, whatever
\* the graph (edges between existing nodes, cycles included).
C40_NoNodeExecutedTwice ==
    \A r \in RunIds : \A i, j \in DOMAIN exec[r].visited :
        exec[r].visited[i] = exec[r].visited[j] => i = j

====
